---------------------------- MODULE Spec2Model ----------------------------
(***************************************************************************)
(* Posture summary script (v17), src/posture_review.ts lines 621-818.      *)
(*                                                                         *)
(* main(workbook) reads a configuration grid, parses it into aggregation   *)
(* rules, reads the master application registry, extracts per-application  *)
(* value lists from every configured posture sheet, and (re)creates the    *)
(* "Posture Summary" sheet with one row per master application.            *)
(*                                                                         *)
(* Strings are sequences of one-character strings, so that trim, case      *)
(* folding, split/join and the numeric clean-up are computed character by  *)
(* character.  Numbers are fixed-point integers in units of 1/Scale.       *)
(***************************************************************************)
EXTENDS Integers, Sequences, FiniteSets, TLC

VARIABLES
    workbook,               \* the sheets the run reads: Config, Applications, posture sheets
    summarySheet,           \* the "Posture Summary" sheet: exists / header / data / formatted
    io,                     \* the awaited or workbook-changing calls made so far, in order
    pc,                     \* position of main()
    halt,                   \* why main() returned ("" while running)
    configValues,           \* line 664
    colIdx,                 \* the seven colIdx* constants of line 676
    cfgRowI,                \* loop variable i of line 680
    POSTURE_SHEETS_CONFIG,  \* line 679
    ruleRow,                \* history: the config row index each accepted rule came from
    uniqueMasterFields,     \* line 679 (a Set: insertion ordered, no duplicates)
    configIsValid,          \* line 679
    masterFieldsToPull,     \* line 695
    masterAppIds,           \* line 704
    masterAppDataMap,       \* line 704
    postureDataMap,         \* line 709
    cfgPos,                 \* position of the for-of loop of line 709
    summaryHeaders,         \* line 717
    postureColumnConfigMap, \* line 719 (a Map: insertion ordered)
    outputData,             \* line 725
    appPos,                 \* position of the for-of loop of line 729
    droppedApps,            \* history: the app ids whose row the guard of line 789 dropped
    fnArg,                  \* argument of the helper under test (helper specifications)
    fnRes                   \* its result

vars == << workbook, summarySheet, io, pc, halt, configValues, colIdx, cfgRowI,
           POSTURE_SHEETS_CONFIG, ruleRow, uniqueMasterFields, configIsValid,
           masterFieldsToPull, masterAppIds, masterAppDataMap, postureDataMap,
           cfgPos, summaryHeaders, postureColumnConfigMap, outputData, appPos,
           droppedApps, fnArg, fnRes >>

(***************************************************************************)
(* Characters and strings                                                  *)
(***************************************************************************)

\* Upper- and lower-case letters, position by position.
UpperChars ==
<< "A","B","C","D","E","F","G","H","I","J","K","L","M",
   "N","O","P","Q","R","S","T","U","V","W","X","Y","Z" >>

LowerChars ==
<< "a","b","c","d","e","f","g","h","i","j","k","l","m",
   "n","o","p","q","r","s","t","u","v","w","x","y","z" >>

DigitChars ==
<< "0","1","2","3","4","5","6","7","8","9" >>

\* The characters of the model in UTF-16 code unit order (the order of Array.sort()).
CodeOrder ==
<< "\n", " ", "$", ",", "-", "." >> \o DigitChars \o << ":" >> \o UpperChars \o LowerChars \o << "|" >>

IndexIn(seq, c) ==
    IF \E k \in 1..Len(seq) : seq[k] = c
    THEN CHOOSE k \in 1..Len(seq) : seq[k] = c /\ \A m \in 1..(k - 1) : seq[m] # c
    ELSE 0

PickChar(i, table, c) == IF i > 0 THEN table[i] ELSE c

ToLowerChar(c) == PickChar(IndexIn(UpperChars, c), LowerChars, c)

ToUpperChar(c) == PickChar(IndexIn(LowerChars, c), UpperChars, c)

\* String.prototype.toLowerCase / toUpperCase
ToLowerCase(s) == [k \in 1..Len(s) |-> ToLowerChar(s[k])]

ToUpperCase(s) == [k \in 1..Len(s) |-> ToUpperChar(s[k])]

IsSpace(c) == c \in {" ", "\n"}

\* String.prototype.trim
Trim(s) ==
    LET keep == {k \in 1..Len(s) : ~IsSpace(s[k])}
    IN  IF keep = {} THEN << >>
        ELSE LET lo == CHOOSE k \in keep : \A m \in keep : k <= m
                 hi == CHOOSE k \in keep : \A m \in keep : k >= m
             IN  SubSeq(s, lo, hi)

\* String.prototype.split(sep) for a non-empty separator string.
RECURSIVE Split(_, _)
Split(s, sep) ==
    LET at == {k \in 1..(Len(s) - Len(sep) + 1) : SubSeq(s, k, k + Len(sep) - 1) = sep}
    IN  IF at = {} THEN << s >>
        ELSE LET k == CHOOSE x \in at : \A y \in at : x <= y
             IN  << SubSeq(s, 1, k - 1) >> \o Split(SubSeq(s, k + Len(sep), Len(s)), sep)

\* Array.prototype.join(sep)
RECURSIVE Join(_, _)
Join(parts, sep) ==
    IF Len(parts) = 0 THEN << >>
    ELSE IF Len(parts) = 1 THEN parts[1]
    ELSE parts[1] \o sep \o Join(Tail(parts), sep)

\* raw.split(',').map(h => h.trim()).filter(h => h)
ParseList(raw) ==
    LET toks == Split(raw, << "," >>)
    IN  SelectSeq([k \in 1..Len(toks) |-> Trim(toks[k])], LAMBDA t : t # << >>)

\* Number.prototype.toString for a non-negative integer.
RECURSIVE IntToStr(_)
IntToStr(n) ==
    IF n < 10 THEN << DigitChars[n + 1] >>
    ELSE IntToStr(n \div 10) \o << DigitChars[(n % 10) + 1] >>

\* a < b in code unit order (the default comparison of Array.prototype.sort).
RECURSIVE CodeLess(_, _)
CodeLess(a, b) ==
    IF Len(b) = 0 THEN FALSE
    ELSE IF Len(a) = 0 THEN TRUE
    ELSE IF a[1] = b[1] THEN CodeLess(Tail(a), Tail(b))
    ELSE IndexIn(CodeOrder, a[1]) < IndexIn(CodeOrder, b[1])


\* Array.from(set).sort(): the strings of S in ascending code unit order.
RECURSIVE SortStrings(_)
SortStrings(S) ==
    IF S = {} THEN << >>
    ELSE LET lo == CHOOSE x \in S : \A y \in S \ {x} : CodeLess(x, y)
         IN  << lo >> \o SortStrings(S \ {lo})

\* Primary collation order of String.prototype.localeCompare over the characters
\* of the model: white space, punctuation, symbols, digits, then letters with
\* both cases of a letter at the same rank.
LocaleOrder ==
<< "\n", " ", "-", ",", ":", ".", "|", "$" >> \o DigitChars \o LowerChars

RECURSIVE PrimaryLess(_, _)
PrimaryLess(a, b) ==
    IF Len(b) = 0 THEN FALSE
    ELSE IF Len(a) = 0 THEN TRUE
    ELSE IF ToLowerChar(a[1]) = ToLowerChar(b[1]) THEN PrimaryLess(Tail(a), Tail(b))
    ELSE IndexIn(LocaleOrder, ToLowerChar(a[1])) < IndexIn(LocaleOrder, ToLowerChar(b[1]))

\* a.localeCompare(b) < 0: primary order first; strings that differ only in case
\* are ordered at the first difference, lower case first.
LocaleLess(a, b) ==
    IF ToLowerCase(a) # ToLowerCase(b) THEN PrimaryLess(a, b)
    ELSE \E k \in 1..Len(a) :
            /\ a[k] # b[k]
            /\ \A m \in 1..(k - 1) : a[m] = b[m]
            /\ IndexIn(LowerChars, a[k]) > 0

\* entries.sort((a, b) => a[0].localeCompare(b[0])) over the distinct keys S.
RECURSIVE SortLocale(_)
SortLocale(S) ==
    IF S = {} THEN << >>
    ELSE LET lo == CHOOSE x \in S : \A y \in S \ {x} : LocaleLess(x, y)
         IN  << lo >> \o SortLocale(S \ {lo})

(***************************************************************************)
(* Scalars: string | number | boolean | null, and NaN                      *)
(***************************************************************************)

Null == [k |-> "null"]

NaN == [k |-> "nan"]

Str(s) == [k |-> "str", s |-> s]

Num(n) == [k |-> "num", n |-> n]

Bool(b) == [k |-> "bool", b |-> b]

\* Numbers are integers in units of 1/Scale (three fraction digits).
Scale == 10 * 10 * 10

\* value.replace(/[^0-9.-]+/g, "")
StripNonNumeric(s) ==
    SelectSeq(s, LAMBDA c : IndexIn(DigitChars, c) > 0 \/ c = "." \/ c = "-")

RECURSIVE DigitsValue(_)
DigitsValue(ds) ==
    IF Len(ds) = 0 THEN 0
    ELSE 10 * DigitsValue(SubSeq(ds, 1, Len(ds) - 1)) + (IndexIn(DigitChars, ds[Len(ds)]) - 1)

AllDigits(ds) == \A k \in 1..Len(ds) : IndexIn(DigitChars, ds[k]) > 0

\* Number(string): the empty (or blank) string is 0; an optionally signed decimal
\* literal (digits, digits with a fraction, or a fraction alone) is its value;
\* anything else is NaN.
FractionValue(ip, fp) ==
    IF AllDigits(ip) /\ AllDigits(fp) /\ Len(ip) + Len(fp) > 0
    THEN Num(DigitsValue(ip) * Scale + DigitsValue(SubSeq(fp \o << "0", "0", "0" >>, 1, 3)))
    ELSE NaN

DecimalValue(body, dot) ==
    FractionValue(IF dot = 0 THEN body ELSE SubSeq(body, 1, dot - 1),
                  IF dot = 0 THEN << >> ELSE SubSeq(body, dot + 1, Len(body)))

UnsignedLiteral(body) == DecimalValue(body, IndexIn(body, "."))

Negate(v) == IF v = NaN THEN NaN ELSE Num(0 - v.n)

SignedLiteral(s) ==
    IF Len(s) = 0 THEN Num(0)
    ELSE IF s[1] = "-" THEN Negate(UnsignedLiteral(Tail(s)))
    ELSE UnsignedLiteral(s)

StringToNumber(raw) == SignedLiteral(Trim(raw))

\* Number(value)
ToNumber(v) ==
    CASE v.k = "str"  -> StringToNumber(v.s)
      [] v.k = "num"  -> v
      [] v.k = "bool" -> Num(IF v.b THEN Scale ELSE 0)
      [] OTHER        -> NaN

\* line 655
NullIfNaN(num) == IF num = NaN THEN Null ELSE num

parseNumber(value) ==
    IF value = Null \/ value = Str(<< >>) THEN Null
    ELSE NullIfNaN(ToNumber(IF value.k = "str" THEN Str(StripNonNumeric(value.s)) ELSE value))

(***************************************************************************)
(* Header resolution, line 652-654                                         *)
(***************************************************************************)

\* headerRowValues.findIndex(h => h?.toString().toLowerCase().trim() === lowerHeader),
\* 0-based, -1 when absent.
FirstOf(hit) == IF hit = {} THEN -1 ELSE (CHOOSE k \in hit : \A m \in hit : k <= m) - 1

FindIndexOf(headerRowValues, lowerHeader) ==
    FirstOf({k \in 1..Len(headerRowValues) :
                Trim(ToLowerCase(headerRowValues[k])) = lowerHeader})

\* A faulty variant of FoundOr: a match of a later candidate is preferred.
FoundOrLater(index, otherwise) == IF otherwise # -1 THEN otherwise ELSE index

FoundOr(index, otherwise) == IF index # -1 THEN index ELSE otherwise

RECURSIVE findColumnIndex(_, _)
findColumnIndex(headerRowValues, possibleHeaders) ==
    IF Len(possibleHeaders) = 0 THEN -1
    ELSE IF possibleHeaders[1] = << >>
         THEN findColumnIndex(headerRowValues, Tail(possibleHeaders))
    ELSE FoundOr(FindIndexOf(headerRowValues, Trim(ToLowerCase(possibleHeaders[1]))),
                 findColumnIndex(headerRowValues, Tail(possibleHeaders)))

(***************************************************************************)
(* Constants of main(), lines 629-639                                      *)
(***************************************************************************)

MASTER_APP_SHEET_NAME == << "A","p","p","l","i","c","a","t","i","o","n","s" >>

MASTER_APP_ID_HEADER == << "A","p","p","l","i","c","a","t","i","o","n"," ","I","D" >>

CONFIG_SHEET_NAME == << "C","o","n","f","i","g" >>

DEFAULT_VALUE_MISSING == Str(<< >>)

CONCATENATE_SEPARATOR == << " ", "-", " " >>

COUNT_SEPARATOR == << ":", " " >>

INTERNAL_SEP == << "|", "|", "|" >>

NEWLINE == << "\n" >>

sList == << "L","i","s","t" >>

sCount == << "C","o","u","n","t" >>

sSum == << "S","u","m" >>

sAverage == << "A","v","e","r","a","g","e" >>

sMin == << "M","i","n" >>

sMax == << "M","a","x" >>

sUniqueList == << "U","n","i","q","u","e","L","i","s","t" >>

\* line 686
allowedAggTypes == << sList, sCount, sSum, sAverage, sMin, sMax, sUniqueList >>

SeqToSet(q) == {q[k] : k \in 1..Len(q)}

(***************************************************************************)
(* Aggregation, lines 656-657 and 741-771                                  *)
(***************************************************************************)

\* line 656: dataMap[appId]?.[headerName] ?? []
getValuesFromMap(dataMap, appId, headerName) ==
    IF appId \in DOMAIN dataMap /\ headerName \in DOMAIN dataMap[appId]
    THEN dataMap[appId][headerName]
    ELSE << >>

\* line 657
MaxOf(lens) == CHOOSE m \in lens : \A x \in lens : x <= m

Aligned(valueLists) ==
    [valueLists |-> valueLists,
     maxRows    |-> MaxOf({Len(valueLists[j]) : j \in DOMAIN valueLists} \cup {0})]

getAlignedValuesForRowConcatenation(dataMap, appId, headers) ==
    Aligned([j \in 1..Len(headers) |-> getValuesFromMap(dataMap, appId, headers[j])])

\* (valueLists[j]?.[i] ?? "").toString() for j over the headers, i 1-based.
AlignedParts(aligned, i) ==
    [j \in 1..Len(aligned.valueLists) |->
        IF i <= Len(aligned.valueLists[j]) THEN aligned.valueLists[j][i] ELSE << >>]

\* A faulty variant of GroupCount: the count of a group stays at its first value.
GroupCountOne(aligned, k) == 1

\* line 753, case "Count"
\* groupCounts.get(k): the aligned rows whose group key is k
GroupCount(aligned, k) ==
    Cardinality({i \in 1..aligned.maxRows : Join(AlignedParts(aligned, i), INTERNAL_SEP) = k})

CountLines(aligned, sorted) ==
    [n \in 1..Len(sorted) |->
        Join(Split(sorted[n], INTERNAL_SEP), CONCATENATE_SEPARATOR)
            \o COUNT_SEPARATOR \o IntToStr(GroupCount(aligned, sorted[n]))]

\* A faulty variant of CountCell: no aligned rows give the missing value.
CountCellBlank(aligned) ==
    IF aligned.maxRows > 0
    THEN Str(Join(CountLines(aligned,
                     SortLocale({Join(AlignedParts(aligned, i), INTERNAL_SEP) :
                                    i \in 1..aligned.maxRows})),
                  NEWLINE))
    ELSE DEFAULT_VALUE_MISSING

CountCell(aligned) ==
    IF aligned.maxRows > 0
    THEN Str(Join(CountLines(aligned,
                     SortLocale({Join(AlignedParts(aligned, i), INTERNAL_SEP) :
                                    i \in 1..aligned.maxRows})),
                  NEWLINE))
    ELSE Num(0)

AggregateCount(config, appId, dataMap) ==
    CountCell(getAlignedValuesForRowConcatenation(dataMap, appId, config.dataHeadersToPull))

\* line 758, case "List"
ListCell(aligned) ==
    IF aligned.maxRows > 0
    THEN Str(Join([i \in 1..aligned.maxRows |->
                      Join(AlignedParts(aligned, i), CONCATENATE_SEPARATOR)], NEWLINE))
    ELSE DEFAULT_VALUE_MISSING

AggregateList(config, appId, dataMap) ==
    ListCell(getAlignedValuesForRowConcatenation(dataMap, appId, config.dataHeadersToPull))

RECURSIVE SumOf(_)
SumOf(nums) == IF Len(nums) = 0 THEN 0 ELSE nums[1] + SumOf(Tail(nums))

\* parseFloat((sum / n).toFixed(2)): the quotient rounded to two fraction digits,
\* halves away from zero.
AverageOf(sum, n) ==
    LET unit == Scale \div 100
        mag  == IF sum < 0 THEN 0 - sum ELSE sum
        q    == (2 * mag + n * unit) \div (2 * n * unit)
    IN  IF sum < 0 THEN 0 - q * unit ELSE q * unit

\* for (const v of values) { const num = parseNumber(v); if (num !== null) push }
NumbersOf(kept) == [k \in 1..Len(kept) |-> kept[k].n]

NumericValues(values) ==
    NumbersOf(SelectSeq([k \in 1..Len(values) |-> parseNumber(Str(values[k]))],
                        LAMBDA x : x # Null))

\* line 761, case "Sum": case "Average": case "Min": case "Max"
MinOf(all) == CHOOSE x \in all : \A y \in all : x <= y

ReduceNumeric(aggType, numericValues) ==
    IF Len(numericValues) > 0
    THEN CASE aggType = sSum     -> Num(SumOf(numericValues))
           [] aggType = sAverage -> Num(AverageOf(SumOf(numericValues), Len(numericValues)))
           [] aggType = sMin     -> Num(MinOf(SeqToSet(numericValues)))
           [] aggType = sMax     -> Num(MaxOf(SeqToSet(numericValues)))
           [] OTHER              -> DEFAULT_VALUE_MISSING
    ELSE DEFAULT_VALUE_MISSING

AggregateNumeric(config, appId, dataMap) ==
    ReduceNumeric(config.aggregationType,
                  NumericValues(getValuesFromMap(dataMap, appId,
                                                 config.valueHeaderForAggregation)))

\* line 764, case "UniqueList"
UniqueCell(values) ==
    IF Len(values) > 0
    THEN Str(Join(SortStrings(SeqToSet(values)), NEWLINE))
    ELSE DEFAULT_VALUE_MISSING

AggregateUniqueList(config, appId, dataMap) ==
    UniqueCell(getValuesFromMap(dataMap, appId,
                   IF Len(config.dataHeadersToPull) > 0 THEN config.dataHeadersToPull[1]
                   ELSE << >>))

\* lines 742-771: the switch on config.aggregationType
AggregateCell(config, appId, dataMap) ==
    CASE config.aggregationType = sCount -> AggregateCount(config, appId, dataMap)
      [] config.aggregationType = sList  -> AggregateList(config, appId, dataMap)
      [] config.aggregationType \in {sSum, sAverage, sMin, sMax} ->
             AggregateNumeric(config, appId, dataMap)
      [] config.aggregationType = sUniqueList -> AggregateUniqueList(config, appId, dataMap)
      [] OTHER -> DEFAULT_VALUE_MISSING

(***************************************************************************)
(* 1. Read configuration, lines 662-697                                    *)
(***************************************************************************)

sTRUE == << "T","R","U","E" >>

\* row[index] for a 0-based index
Cell(row, index) == row[index + 1]

\* line 676: the seven header look-ups over the config header row
ResolveConfigColumns(configHeaderRow) ==
    [IsEnabled    |-> findColumnIndex(configHeaderRow,
                        << << "I","s","E","n","a","b","l","e","d" >>,
                           << "E","n","a","b","l","e","d" >> >>),
     SheetName    |-> findColumnIndex(configHeaderRow,
                        << << "S","h","e","e","t","N","a","m","e" >>,
                           << "S","h","e","e","t"," ","N","a","m","e" >> >>),
     AppIdHeaders |-> findColumnIndex(configHeaderRow,
                        << << "A","p","p","I","d","H","e","a","d","e","r","s" >>,
                           << "A","p","p"," ","I","D"," ","H","e","a","d","e","r","s" >>,
                           << "A","p","p","l","i","c","a","t","i","o","n"," ","I","D"," ",
                              "H","e","a","d","e","r","s" >> >>),
     DataHeaders  |-> findColumnIndex(configHeaderRow,
                        << << "D","a","t","a","H","e","a","d","e","r","s","T","o","P","u","l","l" >>,
                           << "D","a","t","a"," ","H","e","a","d","e","r","s" >> >>),
     AggType      |-> findColumnIndex(configHeaderRow,
                        << << "A","g","g","r","e","g","a","t","i","o","n","T","y","p","e" >>,
                           << "A","g","g","r","e","g","a","t","i","o","n"," ","T","y","p","e" >> >>),
     ValueHeader  |-> findColumnIndex(configHeaderRow,
                        << << "V","a","l","u","e","H","e","a","d","e","r","F","o","r",
                              "A","g","g","r","e","g","a","t","i","o","n" >>,
                           << "V","a","l","u","e"," ","H","e","a","d","e","r" >> >>),
     MasterFields |-> findColumnIndex(configHeaderRow,
                        << << "M","a","s","t","e","r","A","p","p","F","i","e","l","d","s",
                              "T","o","P","u","l","l" >>,
                           << "M","a","s","t","e","r"," ","F","i","e","l","d","s" >> >> )]

\* line 677: missingEssential.length > 0
MissingEssential(idx) ==
    idx.IsEnabled = -1 \/ idx.SheetName = -1 \/ idx.AppIdHeaders = -1 \/ idx.AggType = -1

\* line 681: Math.max over the seven indexes
MaxIndex(idx) ==
    LET all == {idx.IsEnabled, idx.SheetName, idx.AppIdHeaders, idx.AggType,
                idx.DataHeaders, idx.ValueHeader, idx.MasterFields}
    IN  CHOOSE m \in all : \A x \in all : x <= m

\* A faulty variant of AllowedOrList: a name that is not allowed is kept.
AllowedOrKept(normalizedAggType) == normalizedAggType

\* line 686: aggTypeRaw.charAt(0).toUpperCase() + aggTypeRaw.slice(1).toLowerCase(),
\* kept when it is one of allowedAggTypes, "List" otherwise.
AllowedOrList(normalizedAggType) ==
    IF normalizedAggType \in SeqToSet(allowedAggTypes) THEN normalizedAggType ELSE sList

NormalizeAggType(aggTypeRaw) ==
    AllowedOrList(IF Len(aggTypeRaw) = 0 THEN << >>
                  ELSE << ToUpperChar(aggTypeRaw[1]) >> \o ToLowerCase(Tail(aggTypeRaw)))

\* A faulty variant of RowIsValid: the value header of the numeric types is not
\* checked.
RowIsValidDataOnly(aggregationType, dataHeadersToPull, valueHeader) ==
    ~(aggregationType \in {sList, sCount, sUniqueList} /\ Len(dataHeadersToPull) = 0)

\* lines 687-690: rowIsValid
RowIsValid(aggregationType, dataHeadersToPull, valueHeader) ==
    IF aggregationType \in {sList, sCount, sUniqueList} /\ Len(dataHeadersToPull) = 0
    THEN FALSE
    ELSE IF aggregationType \in {sSum, sAverage, sMin, sMax}
    THEN valueHeader # << >> /\ valueHeader \in SeqToSet(dataHeadersToPull)
    ELSE TRUE

\* lines 681-691, one iteration of the config loop: what the row does.
\*   kind "skip"    : continue (the row is ignored)
\*   kind "rule"    : POSTURE_SHEETS_CONFIG.push(entry)
\*   kind "invalid" : configIsValid = false
\* masterFields are the names the iteration adds to uniqueMasterFields.
\* valueHeaderForAggregation << >> stands for both undefined and "" (the code
\* only tests it for truthiness or compares it with non-empty header names).
RowResult(kind, masterFields, entry) ==
    [kind |-> kind, masterFields |-> masterFields, entry |-> entry]

\* lines 685 (from appIdHeaders.length === 0) to 691
ValidateRow(sheetName, appIdHeaders, dataHeadersToPull, aggregationType, valueHeader, masterFieldsForRow) ==
    IF Len(appIdHeaders) = 0 THEN RowResult("skip", masterFieldsForRow, << >>)
    ELSE IF RowIsValid(aggregationType, dataHeadersToPull, valueHeader)
         THEN RowResult("rule", masterFieldsForRow,
                        [sheetName                 |-> sheetName,
                         appIdHeaders              |-> appIdHeaders,
                         dataHeadersToPull         |-> dataHeadersToPull,
                         aggregationType           |-> aggregationType,
                         valueHeaderForAggregation |-> valueHeader,
                         masterFieldsForRow        |-> masterFieldsForRow])
    ELSE RowResult("invalid", masterFieldsForRow, << >>)

\* lines 684-686
ParseEnabledRow(sheetName, appIdHeadersRaw, aggCell, dataHeadersRaw, valueHeader, masterFieldsRaw) ==
    IF sheetName = << >> \/ appIdHeadersRaw = << >> THEN RowResult("skip", << >>, << >>)
    ELSE ValidateRow(sheetName, ParseList(appIdHeadersRaw), ParseList(dataHeadersRaw),
                     NormalizeAggType(IF aggCell = << >> THEN sList ELSE aggCell),
                     valueHeader, ParseList(masterFieldsRaw))

\* A faulty variant of ParseCleanRow: the enabled flag is not looked at.
ParseCleanRowAlways(cleanRow, idx) ==
    ParseEnabledRow(
        Cell(cleanRow, idx.SheetName),
        Cell(cleanRow, idx.AppIdHeaders),
        Cell(cleanRow, idx.AggType),
        IF idx.DataHeaders # -1 THEN Cell(cleanRow, idx.DataHeaders) ELSE << >>,
        IF idx.ValueHeader # -1 THEN Trim(Cell(cleanRow, idx.ValueHeader)) ELSE << >>,
        IF idx.MasterFields # -1 THEN Cell(cleanRow, idx.MasterFields) ELSE << >>)

\* lines 682-683
ParseCleanRow(cleanRow, idx) ==
    IF ToUpperCase(Cell(cleanRow, idx.IsEnabled)) # sTRUE THEN RowResult("skip", << >>, << >>)
    ELSE ParseEnabledRow(
            Cell(cleanRow, idx.SheetName),
            Cell(cleanRow, idx.AppIdHeaders),
            Cell(cleanRow, idx.AggType),
            IF idx.DataHeaders # -1 THEN Cell(cleanRow, idx.DataHeaders) ELSE << >>,
            IF idx.ValueHeader # -1 THEN Trim(Cell(cleanRow, idx.ValueHeader)) ELSE << >>,
            IF idx.MasterFields # -1 THEN Cell(cleanRow, idx.MasterFields) ELSE << >>)

ParseConfigRow(row, idx) ==
    IF Len(row) <= MaxIndex(idx) THEN RowResult("skip", << >>, << >>)
    ELSE ParseCleanRow([k \in 1..Len(row) |-> Trim(row[k])], idx)

\* set.add(x) for each x of xs, on a Set kept as its insertion-ordered sequence
RECURSIVE AddAll(_, _)
AddAll(setSeq, xs) ==
    IF Len(xs) = 0 THEN setSeq
    ELSE AddAll(IF xs[1] \in SeqToSet(setSeq) THEN setSeq ELSE Append(setSeq, xs[1]), Tail(xs))

\* obj[key] = value on an object used as a map
Put(map, key, value) ==
    [x \in (DOMAIN map) \cup {key} |-> IF x = key THEN value ELSE map[x]]

EmptyMap == [x \in {} |-> << >>]

(***************************************************************************)
(* 2. Read master app data, lines 702-705                                  *)
(***************************************************************************)

\* line 703: masterFieldColIndices, the requested fields the master header has
ColumnsOf(found, headerRow) ==
    [h \in found |-> findColumnIndex(headerRow, << h >>)]

MasterFieldColIndices(masterHeaderRow, fields) ==
    ColumnsOf({f \in SeqToSet(fields) : findColumnIndex(masterHeaderRow, << f >>) # -1},
              masterHeaderRow)

\* A faulty variant of AddMasterRow: a later row of a known id replaces its entry.
AddMasterRowOverwrite(acc, appId, appData) ==
    IF appId # << >>
    THEN [ids |-> acc.ids \cup {appId}, data |-> Put(acc.data, appId, appData)]
    ELSE acc

\* line 704, rows i..end of the loop over masterValues (i is 0-based), from the
\* accumulated acc = [ids, data].
\* One data row of the master sheet: the first row of an id adds the id and its
\* field values; rows of a blank or known id change nothing.
AddMasterRow(acc, appId, appData) ==
    IF appId # << >> /\ appId \notin acc.ids
    THEN [ids |-> acc.ids \cup {appId}, data |-> Put(acc.data, appId, appData)]
    ELSE acc

MasterRow(acc, row, idCol, fieldIdx) ==
    IF Len(row) <= idCol THEN acc
    ELSE AddMasterRow(acc, Trim(Cell(row, idCol)),
                      [f \in {g \in DOMAIN fieldIdx : Len(row) > fieldIdx[g]} |->
                          Cell(row, fieldIdx[f])])

RECURSIVE LoadMasterRows(_, _, _, _, _)
LoadMasterRows(masterValues, i, idCol, fieldIdx, acc) ==
    IF i >= Len(masterValues) THEN acc
    ELSE LoadMasterRows(masterValues, i + 1, idCol, fieldIdx,
                        MasterRow(acc, masterValues[i + 1], idCol, fieldIdx))

\* lines 703-704 over the master grid
LoadMaster(masterValues, fields) ==
    LoadMasterRows(masterValues, 1,
                   findColumnIndex(masterValues[1], << MASTER_APP_ID_HEADER >>),
                   MasterFieldColIndices(masterValues[1], fields),
                   [ids |-> {}, data |-> EmptyMap])

(***************************************************************************)
(* 3. Process posture sheets, line 709                                     *)
(***************************************************************************)

IsNumericType(aggregationType) == aggregationType \in {sSum, sAverage, sMin, sMax}

\* headersRequiredForThisConfig: dataHeadersToPull plus the value header, once each
HeadersRequired(config) ==
    AddAll(<< >>, config.dataHeadersToPull \o
                  (IF config.valueHeaderForAggregation # << >>
                   THEN << config.valueHeaderForAggregation >> ELSE << >>))

\* A faulty variant of IsCritical: every missing header aborts the rule.
IsCriticalAlways(config, header) == TRUE

\* isCritical for a header the posture header row does not have
IsCritical(config, header) ==
    LET isDataHeader  == header \in SeqToSet(config.dataHeadersToPull)
        isValueHeader == header = config.valueHeaderForAggregation
    IN  IF config.aggregationType \in {sList, sCount} THEN isDataHeader
        ELSE IF config.aggregationType = sUniqueList
             THEN Len(config.dataHeadersToPull) > 0 /\ header = config.dataHeadersToPull[1]
        ELSE IF IsNumericType(config.aggregationType) THEN isValueHeader
        ELSE FALSE

\* dataColIndicesMap when the header loop runs to its end
DataColIndicesMap(config, postureHeaderRow) ==
    ColumnsOf({h \in SeqToSet(HeadersRequired(config)) :
                  h # << >> /\ findColumnIndex(postureHeaderRow, << h >>) # -1},
              postureHeaderRow)

\* requiredHeadersAvailable: no required header is both missing and critical
RequiredHeadersAvailable(config, postureHeaderRow) ==
    \A h \in SeqToSet(HeadersRequired(config)) :
        (h # << >> /\ findColumnIndex(postureHeaderRow, << h >>) = -1) => ~IsCritical(config, h)

\* columnsAvailableForProcessing: the second guard over dataColIndicesMap
ColumnsAvailableForProcessing(config, dataColIndicesMap) ==
    IF config.aggregationType \in {sList, sCount}
    THEN \A h \in SeqToSet(config.dataHeadersToPull) : h \in DOMAIN dataColIndicesMap
    ELSE IF config.aggregationType = sUniqueList
         THEN Len(config.dataHeadersToPull) > 0
              /\ config.dataHeadersToPull[1] \in DOMAIN dataColIndicesMap
    ELSE IF IsNumericType(config.aggregationType)
         THEN config.valueHeaderForAggregation # << >>
              /\ config.valueHeaderForAggregation \in DOMAIN dataColIndicesMap
    ELSE TRUE

\* appData after dataColIndicesMap.forEach for one row: every mapped header whose
\* cell exists and is not "" gets the cell appended to its list.
PushValues(appData, row, dataColIndicesMap, hits) ==
    [h \in (DOMAIN appData) \cup hits |->
        IF h \in hits
        THEN Append(IF h \in DOMAIN appData THEN appData[h] ELSE << >>,
                    Cell(row, dataColIndicesMap[h]))
        ELSE appData[h]]

\* A faulty variant of PushRowValues: empty cells are stored as well.
PushRowValuesAll(appData, row, dataColIndicesMap) ==
    PushValues(appData, row, dataColIndicesMap,
               {h \in DOMAIN dataColIndicesMap : Len(row) > dataColIndicesMap[h]})

PushRowValues(appData, row, dataColIndicesMap) ==
    PushValues(appData, row, dataColIndicesMap,
               {h \in DOMAIN dataColIndicesMap :
                   Len(row) > dataColIndicesMap[h] /\ Cell(row, dataColIndicesMap[h]) # << >>})

\* A faulty variant of RowIsRelevant: the master membership test is left out.
RowIsRelevantAnyId(appId, ids) == appId # << >>

\* the join filter: if (appId && masterAppIds.has(appId))
RowIsRelevant(appId, ids) == appId # << >> /\ appId \in ids

\* rows i..end of the loop over postureValues (i is 0-based)
StoreRow(dataMap, appId, row, dataColIndicesMap, ids) ==
    IF RowIsRelevant(appId, ids)
    THEN Put(dataMap, appId,
             PushRowValues(IF appId \in DOMAIN dataMap THEN dataMap[appId] ELSE EmptyMap,
                           row, dataColIndicesMap))
    ELSE dataMap

ExtractRow(dataMap, row, appIdColIndex, dataColIndicesMap, ids) ==
    IF Len(row) <= appIdColIndex THEN dataMap
    ELSE StoreRow(dataMap, Trim(Cell(row, appIdColIndex)), row, dataColIndicesMap, ids)

RECURSIVE ExtractRows(_, _, _, _, _, _)
ExtractRows(postureValues, i, appIdColIndex, dataColIndicesMap, ids, dataMap) ==
    IF i >= Len(postureValues) THEN dataMap
    ELSE ExtractRows(postureValues, i + 1, appIdColIndex, dataColIndicesMap, ids,
                     ExtractRow(dataMap, postureValues[i + 1], appIdColIndex,
                                dataColIndicesMap, ids))

\* getWorksheet(name): a sheet of the workbook or undefined
HasSheet(wb, name) == name \in DOMAIN wb.sheets

\* One iteration of the loop over POSTURE_SHEETS_CONFIG:
\*   read    : whether postureRange.getValues() was awaited
\*   dataMap : postureDataMap after the iteration
ExtractWithColumns(config, postureValues, appIdColIndex, dataColIndicesMap, ids, dataMap) ==
    IF appIdColIndex = -1 THEN [read |-> TRUE, dataMap |-> dataMap]
    ELSE IF ~RequiredHeadersAvailable(config, postureValues[1])
         THEN [read |-> TRUE, dataMap |-> dataMap]
    ELSE IF ~ColumnsAvailableForProcessing(config, dataColIndicesMap)
         THEN [read |-> TRUE, dataMap |-> dataMap]
    ELSE [read    |-> TRUE,
          dataMap |-> ExtractRows(postureValues, 1, appIdColIndex, dataColIndicesMap,
                                  ids, dataMap)]

ExtractFromGrid(config, postureValues, ids, dataMap) ==
    IF Len(postureValues) <= 1 THEN [read |-> FALSE, dataMap |-> dataMap]
    ELSE ExtractWithColumns(config, postureValues,
                            findColumnIndex(postureValues[1], config.appIdHeaders),
                            DataColIndicesMap(config, postureValues[1]), ids, dataMap)

ExtractRule(config, wb, ids, dataMap) ==
    IF ~HasSheet(wb, config.sheetName) THEN [read |-> FALSE, dataMap |-> dataMap]
    ELSE ExtractFromGrid(config, wb.sheets[config.sheetName], ids, dataMap)

(***************************************************************************)
(* 4. Prepare and write the summary sheet, lines 713-812                   *)
(***************************************************************************)

\* A faulty variant of AddColumn: a later rule of a known sheet takes the column.
AddColumnLast(acc, config) ==
    IF config.sheetName \notin {acc[k].header : k \in 1..Len(acc)}
    THEN Append(acc, [header |-> config.sheetName, config |-> config])
    ELSE [k \in 1..Len(acc) |->
             IF acc[k].header = config.sheetName
             THEN [header |-> config.sheetName, config |-> config]
             ELSE acc[k]]

\* A faulty variant of AddColumn: a column per rule, without the has() test.
AddColumnAlways(acc, config) ==
    Append(acc, [header |-> config.sheetName, config |-> config])

\* lines 718-720: the posture columns, one per distinct sheetName, each with the
\* first config of that name (a Map kept as its insertion-ordered entries).
AddColumn(acc, config) ==
    IF config.sheetName \notin {acc[k].header : k \in 1..Len(acc)}
    THEN Append(acc, [header |-> config.sheetName, config |-> config])
    ELSE acc

RECURSIVE PostureColumns(_, _)
PostureColumns(configs, acc) ==
    IF Len(configs) = 0 THEN acc
    ELSE PostureColumns(Tail(configs), AddColumn(acc, configs[1]))

\* lines 717-720: summaryHeaders
SummaryHeaders(fields, columns) ==
    << MASTER_APP_ID_HEADER >> \o fields \o [k \in 1..Len(columns) |-> columns[k].header]

\* A faulty variant of MasterCells: a field the master data lacks gets no cell.
MasterCellsFound(fields, appData) ==
    [k \in 1..Len(SelectSeq(fields, LAMBDA f : f \in DOMAIN appData)) |->
        Str(appData[SelectSeq(fields, LAMBDA f : f \in DOMAIN appData)[k]])]

\* lines 730-786: the row of one app id
MasterCells(fields, appData) ==
    [k \in 1..Len(fields) |->
        IF fields[k] \in DOMAIN appData THEN Str(appData[fields[k]])
        ELSE DEFAULT_VALUE_MISSING]

\* A faulty variant of CellOf: a caught exception leaves the missing value.
CellOfBlank(config, appId, dataMap, raised) ==
    IF raised THEN DEFAULT_VALUE_MISSING ELSE AggregateCell(config, appId, dataMap)

\* lines 743-779: the value pushed for one posture column; when the aggregation
\* raised, the catch block made it 'ERROR'.
CellOf(config, appId, dataMap, raised) ==
    IF raised THEN Str(<< "E","R","R","O","R" >>) ELSE AggregateCell(config, appId, dataMap)

\* A faulty variant of BuildRow: a column whose aggregation raised gets no cell.
BuildRowSkipRaised(appId, fields, masterData, columns, dataMap, raises) ==
    << Str(appId) >>
    \o MasterCells(fields, IF appId \in DOMAIN masterData THEN masterData[appId] ELSE EmptyMap)
    \o [k \in 1..Len(SelectSeq(columns, LAMBDA c : << appId, c.header >> \notin raises)) |->
           AggregateCell(SelectSeq(columns, LAMBDA c : << appId, c.header >> \notin raises)[k].config,
                         appId, dataMap)]

\* raises: the (app id, column header) pairs whose aggregation raises
BuildRow(appId, fields, masterData, columns, dataMap, raises) ==
    << Str(appId) >>
    \o MasterCells(fields, IF appId \in DOMAIN masterData THEN masterData[appId] ELSE EmptyMap)
    \o [k \in 1..Len(columns) |->
           CellOf(columns[k].config, appId, dataMap, << appId, columns[k].header >> \in raises)]

\* line 789: the row is kept when row.length === summaryHeaders.length
RowLengthOk(row, headers) == Len(row) = Len(headers)

\* line 806: outputData[0] && outputData[0].length === summaryHeaders.length
WillWriteData(rows, headers) == Len(rows) > 0 /\ Len(rows[1]) = Len(headers)

(***************************************************************************)
(* Early returns of main()                                                 *)
(***************************************************************************)

\* lines 663-675: "" when the config grid is read and has data rows
ConfigReadHalt(wb) ==
    IF ~HasSheet(wb, CONFIG_SHEET_NAME) THEN "configMissing"
    ELSE IF Len(wb.sheets[CONFIG_SHEET_NAME]) <= 1 THEN "configEmpty"
    ELSE ""

\* lines 670, 673: getValues() is awaited on the table branch whenever the table
\* range has rows, on the used-range branch only when there is a data row.
ConfigIsRead(wb) ==
    /\ HasSheet(wb, CONFIG_SHEET_NAME)
    /\ IF wb.configTable THEN Len(wb.sheets[CONFIG_SHEET_NAME]) > 0
       ELSE Len(wb.sheets[CONFIG_SHEET_NAME]) > 1

\* A faulty variant of HaltAfterScan: configIsValid is not consulted.
HaltAfterScanLenient(valid, configs) ==
    IF Len(configs) = 0 THEN "noRules" ELSE ""

\* lines 693-694
HaltAfterScan(valid, configs) ==
    IF ~valid THEN "configInvalid"
    ELSE IF Len(configs) = 0 THEN "noRules"
    ELSE ""

\* A faulty variant of MasterHalt: a master sheet with a header row alone passes.
MasterHaltLenient(wb) ==
    IF ~HasSheet(wb, MASTER_APP_SHEET_NAME) THEN "masterMissing"
    ELSE IF Len(wb.sheets[MASTER_APP_SHEET_NAME]) = 0 THEN "masterEmpty"
    ELSE IF findColumnIndex(wb.sheets[MASTER_APP_SHEET_NAME][1], << MASTER_APP_ID_HEADER >>) = -1
         THEN "masterNoIdColumn"
    ELSE ""

\* lines 702-703
MasterHalt(wb) ==
    IF ~HasSheet(wb, MASTER_APP_SHEET_NAME) THEN "masterMissing"
    ELSE IF Len(wb.sheets[MASTER_APP_SHEET_NAME]) = 0 THEN "masterEmpty"
    ELSE IF Len(wb.sheets[MASTER_APP_SHEET_NAME]) <= 1 THEN "masterHeaderOnly"
    ELSE IF findColumnIndex(wb.sheets[MASTER_APP_SHEET_NAME][1], << MASTER_APP_ID_HEADER >>) = -1
         THEN "masterNoIdColumn"
    ELSE ""

Event(op, name) == [op |-> op, name |-> name]

SUMMARY_SHEET_NAME ==
    << "P","o","s","t","u","r","e"," ","S","u","m","m","a","r","y" >>

(***************************************************************************)
(* main(), one action per stage                                            *)
(***************************************************************************)

NoIdx ==
    [IsEnabled |-> -1, SheetName |-> -1, AppIdHeaders |-> -1, DataHeaders |-> -1,
     AggType |-> -1, ValueHeader |-> -1, MasterFields |-> -1]

FreshSheet == [exists |-> TRUE, header |-> << >>, data |-> << >>, formatted |-> FALSE]

Pending == [k |-> "pending"]

\* the locals of main() before its first statement
InitLocals ==
    /\ io = << >>
    /\ halt = ""
    /\ configValues = << >>
    /\ colIdx = NoIdx
    /\ cfgRowI = 0
    /\ POSTURE_SHEETS_CONFIG = << >>
    /\ ruleRow = << >>
    /\ uniqueMasterFields = << >>
    /\ configIsValid = TRUE
    /\ masterFieldsToPull = << >>
    /\ masterAppIds = {}
    /\ masterAppDataMap = EmptyMap
    /\ postureDataMap = EmptyMap
    /\ cfgPos = 0
    /\ summaryHeaders = << >>
    /\ postureColumnConfigMap = << >>
    /\ outputData = << >>
    /\ appPos = 0
    /\ droppedApps = {}

\* line 676-677, given the config grid was read and has data rows
ResolveColumns(idx) ==
    /\ colIdx' = idx
    /\ IF MissingEssential(idx)
       THEN halt' = "essentialMissing" /\ pc' = "done" /\ UNCHANGED cfgRowI
       ELSE halt' = halt /\ pc' = "scan" /\ cfgRowI' = 1

ConfigRead(h, read, wb) ==
    /\ io' = IF read THEN Append(io, Event("read", CONFIG_SHEET_NAME)) ELSE io
    /\ configValues' = IF read THEN wb.sheets[CONFIG_SHEET_NAME] ELSE configValues
    /\ IF h # ""
       THEN halt' = h /\ pc' = "done" /\ UNCHANGED << colIdx, cfgRowI >>
       ELSE ResolveColumns(ResolveConfigColumns(wb.sheets[CONFIG_SHEET_NAME][1]))

ReadConfig ==
    /\ pc = "start"
    /\ ConfigRead(ConfigReadHalt(workbook), ConfigIsRead(workbook), workbook)
    /\ UNCHANGED << workbook, summarySheet, POSTURE_SHEETS_CONFIG, ruleRow,
                    uniqueMasterFields, configIsValid, masterFieldsToPull, masterAppIds,
                    masterAppDataMap, postureDataMap, cfgPos, summaryHeaders,
                    postureColumnConfigMap, outputData, appPos, droppedApps, fnArg, fnRes >>

\* lines 680-692, one iteration
ApplyConfigRow(r) ==
    /\ uniqueMasterFields' = AddAll(uniqueMasterFields, r.masterFields)
    /\ POSTURE_SHEETS_CONFIG' =
          IF r.kind = "rule" THEN Append(POSTURE_SHEETS_CONFIG, r.entry)
          ELSE POSTURE_SHEETS_CONFIG
    /\ ruleRow' = IF r.kind = "rule" THEN Append(ruleRow, cfgRowI) ELSE ruleRow
    /\ configIsValid' = IF r.kind = "invalid" THEN FALSE ELSE configIsValid

ScanConfigRow ==
    /\ pc = "scan"
    /\ cfgRowI < Len(configValues)
    /\ ApplyConfigRow(ParseConfigRow(configValues[cfgRowI + 1], colIdx))
    /\ cfgRowI' = cfgRowI + 1
    /\ UNCHANGED << workbook, summarySheet, io, pc, halt, configValues, colIdx,
                    masterFieldsToPull, masterAppIds, masterAppDataMap, postureDataMap,
                    cfgPos, summaryHeaders, postureColumnConfigMap, outputData, appPos,
                    droppedApps, fnArg, fnRes >>

\* lines 693-695
ConfigScanned(h) ==
    IF h # ""
    THEN halt' = h /\ pc' = "done" /\ UNCHANGED masterFieldsToPull
    ELSE halt' = halt /\ pc' = "master" /\ masterFieldsToPull' = uniqueMasterFields

FinishConfig ==
    /\ pc = "scan"
    /\ cfgRowI >= Len(configValues)
    /\ ConfigScanned(HaltAfterScan(configIsValid, POSTURE_SHEETS_CONFIG))
    /\ UNCHANGED << workbook, summarySheet, io, configValues, colIdx, cfgRowI,
                    POSTURE_SHEETS_CONFIG, ruleRow, uniqueMasterFields, configIsValid,
                    masterAppIds, masterAppDataMap, postureDataMap, cfgPos, summaryHeaders,
                    postureColumnConfigMap, outputData, appPos, droppedApps, fnArg, fnRes >>

\* lines 702-705
MasterLoaded(loaded) ==
    /\ halt' = halt
    /\ pc' = "extract"
    /\ masterAppIds' = loaded.ids
    /\ masterAppDataMap' = loaded.data
    /\ cfgPos' = 1

MasterRead(h, wb) ==
    /\ io' = IF HasSheet(wb, MASTER_APP_SHEET_NAME) /\ Len(wb.sheets[MASTER_APP_SHEET_NAME]) > 0
             THEN Append(io, Event("read", MASTER_APP_SHEET_NAME)) ELSE io
    /\ IF h # ""
       THEN halt' = h /\ pc' = "done" /\ UNCHANGED << masterAppIds, masterAppDataMap, cfgPos >>
       ELSE MasterLoaded(LoadMaster(wb.sheets[MASTER_APP_SHEET_NAME], masterFieldsToPull))

ReadMaster ==
    /\ pc = "master"
    /\ MasterRead(MasterHalt(workbook), workbook)
    /\ UNCHANGED << workbook, summarySheet, configValues, colIdx, cfgRowI,
                    POSTURE_SHEETS_CONFIG, ruleRow, uniqueMasterFields, configIsValid,
                    masterFieldsToPull, postureDataMap, summaryHeaders,
                    postureColumnConfigMap, outputData, appPos, droppedApps, fnArg, fnRes >>

\* A faulty variant of RuleExtracted: the sheet is read a second time.
RuleExtractedRetry(config, r) ==
    /\ io' = IF r.read
             THEN io \o << Event("read", config.sheetName), Event("read", config.sheetName) >>
             ELSE io
    /\ postureDataMap' = r.dataMap

\* line 709, one iteration of the loop over POSTURE_SHEETS_CONFIG
RuleExtracted(config, r) ==
    /\ io' = IF r.read THEN Append(io, Event("read", config.sheetName)) ELSE io
    /\ postureDataMap' = r.dataMap

ExtractSheet ==
    /\ pc = "extract"
    /\ cfgPos <= Len(POSTURE_SHEETS_CONFIG)
    /\ RuleExtracted(POSTURE_SHEETS_CONFIG[cfgPos],
                     ExtractRule(POSTURE_SHEETS_CONFIG[cfgPos], workbook, masterAppIds,
                                 postureDataMap))
    /\ cfgPos' = cfgPos + 1
    /\ UNCHANGED << workbook, summarySheet, pc, halt, configValues, colIdx, cfgRowI,
                    POSTURE_SHEETS_CONFIG, ruleRow, uniqueMasterFields, configIsValid,
                    masterFieldsToPull, masterAppIds, masterAppDataMap, summaryHeaders,
                    postureColumnConfigMap, outputData, appPos, droppedApps, fnArg, fnRes >>

\* lines 713-715
PrepareSummary ==
    /\ pc = "extract"
    /\ cfgPos > Len(POSTURE_SHEETS_CONFIG)
    /\ io' = io \o (IF summarySheet.exists THEN << Event("delete", SUMMARY_SHEET_NAME) >>
                    ELSE << >>)
                \o << Event("add", SUMMARY_SHEET_NAME) >>
    /\ summarySheet' = FreshSheet
    /\ pc' = "header"
    /\ UNCHANGED << workbook, halt, configValues, colIdx, cfgRowI, POSTURE_SHEETS_CONFIG,
                    ruleRow, uniqueMasterFields, configIsValid, masterFieldsToPull,
                    masterAppIds, masterAppDataMap, postureDataMap, cfgPos, summaryHeaders,
                    postureColumnConfigMap, outputData, appPos, droppedApps, fnArg, fnRes >>

\* lines 717-722
WriteHeader ==
    /\ pc = "header"
    /\ postureColumnConfigMap' = PostureColumns(POSTURE_SHEETS_CONFIG, << >>)
    /\ summaryHeaders' = SummaryHeaders(masterFieldsToPull, postureColumnConfigMap')
    /\ summarySheet' = [summarySheet EXCEPT !.header = summaryHeaders']
    /\ io' = Append(io, Event("writeHeader", SUMMARY_SHEET_NAME))
    /\ pc' = "rows"
    /\ appPos' = 1
    /\ UNCHANGED << workbook, halt, configValues, colIdx, cfgRowI, POSTURE_SHEETS_CONFIG,
                    ruleRow, uniqueMasterFields, configIsValid, masterFieldsToPull,
                    masterAppIds, masterAppDataMap, postureDataMap, cfgPos, outputData,
                    droppedApps, fnArg, fnRes >>

\* A faulty variant of masterAppIdArray: the ids in descending order.
masterAppIdArrayDescending ==
    [k \in 1..Cardinality(masterAppIds) |->
        SortStrings(masterAppIds)[Cardinality(masterAppIds) + 1 - k]]

\* line 726
masterAppIdArray == SortStrings(masterAppIds)

\* lines 729-798, one iteration of the loop over masterAppIdArray
RowGenerated(appId, row) ==
    IF RowLengthOk(row, summaryHeaders)
    THEN outputData' = Append(outputData, row) /\ UNCHANGED droppedApps
    ELSE droppedApps' = droppedApps \cup {appId} /\ UNCHANGED outputData

GenerateRow ==
    /\ pc = "rows"
    /\ appPos <= Cardinality(masterAppIds)
    /\ RowGenerated(masterAppIdArray[appPos],
                    BuildRow(masterAppIdArray[appPos], masterFieldsToPull, masterAppDataMap,
                             postureColumnConfigMap, postureDataMap, workbook.raises))
    /\ appPos' = appPos + 1
    /\ UNCHANGED << workbook, summarySheet, io, pc, halt, configValues, colIdx, cfgRowI,
                    POSTURE_SHEETS_CONFIG, ruleRow, uniqueMasterFields, configIsValid,
                    masterFieldsToPull, masterAppIds, masterAppDataMap, postureDataMap,
                    cfgPos, summaryHeaders, postureColumnConfigMap, fnArg, fnRes >>

\* lines 802-809
WriteData ==
    /\ pc = "rows"
    /\ appPos > Cardinality(masterAppIds)
    /\ IF WillWriteData(outputData, summaryHeaders)
       THEN /\ summarySheet' = [summarySheet EXCEPT !.data = outputData]
            /\ io' = Append(io, Event("writeData", SUMMARY_SHEET_NAME))
       ELSE UNCHANGED << summarySheet, io >>
    /\ pc' = "format"
    /\ UNCHANGED << workbook, halt, configValues, colIdx, cfgRowI, POSTURE_SHEETS_CONFIG,
                    ruleRow, uniqueMasterFields, configIsValid, masterFieldsToPull,
                    masterAppIds, masterAppDataMap, postureDataMap, cfgPos, summaryHeaders,
                    postureColumnConfigMap, outputData, appPos, droppedApps, fnArg, fnRes >>

\* lines 812-816
FormatSummary ==
    /\ pc = "format"
    /\ IF Len(outputData) > 0
       THEN /\ summarySheet' = [summarySheet EXCEPT !.formatted = TRUE]
            /\ io' = Append(io, Event("format", SUMMARY_SHEET_NAME))
       ELSE UNCHANGED << summarySheet, io >>
    /\ pc' = "done"
    /\ halt' = "finished"
    /\ UNCHANGED << workbook, configValues, colIdx, cfgRowI, POSTURE_SHEETS_CONFIG,
                    ruleRow, uniqueMasterFields, configIsValid, masterFieldsToPull,
                    masterAppIds, masterAppDataMap, postureDataMap, cfgPos, summaryHeaders,
                    postureColumnConfigMap, outputData, appPos, droppedApps, fnArg, fnRes >>

Next ==
    \/ ReadConfig
    \/ ScanConfigRow
    \/ FinishConfig
    \/ ReadMaster
    \/ ExtractSheet
    \/ PrepareSummary
    \/ WriteHeader
    \/ GenerateRow
    \/ WriteData
    \/ FormatSummary

(***************************************************************************)
(* The workbooks the model runs main() on                                  *)
(***************************************************************************)

sPatches == << "P","a","t","c","h","e","s" >>

sScans == << "S","c","a","n","s" >>

hUniqueID == << "U","n","i","q","u","e","I","D" >>

hSeverity == << "S","e","v","e","r","i","t","y" >>

hCost == << "C","o","s","t" >>

hTag == << "T","a","g" >>

idA1 == << "A","1" >>

idA2 == << "A","2" >>

\* Config header rows: the canonical names; the aliases in another case with
\* surrounding blanks; the AggregationType column absent; the two optional
\* columns absent.
ConfigHeaderCanonical ==
    << << "I","s","E","n","a","b","l","e","d" >>, << "S","h","e","e","t","N","a","m","e" >>, << "A","p","p","I","d","H","e","a","d","e","r","s" >>, << "D","a","t","a","H","e","a","d","e","r","s","T","o","P","u","l","l" >>, << "A","g","g","r","e","g","a","t","i","o","n","T","y","p","e" >>, << "V","a","l","u","e","H","e","a","d","e","r","F","o","r","A","g","g","r","e","g","a","t","i","o","n" >>, << "M","a","s","t","e","r","A","p","p","F","i","e","l","d","s","T","o","P","u","l","l" >> >>

ConfigHeaderAliases ==
    << << "e","n","a","b","l","e","d" >>, << " ","S","h","e","e","t"," ","N","a","m","e"," " >>, << "A","P","P"," ","I","D"," ","H","E","A","D","E","R","S" >>, << "D","a","t","a"," ","H","e","a","d","e","r","s" >>, << "a","g","g","r","e","g","a","t","i","o","n"," ","t","y","p","e" >>, << "V","a","l","u","e"," ","H","e","a","d","e","r" >>, << "M","a","s","t","e","r"," ","F","i","e","l","d","s" >> >>

ConfigHeaderNoAggType ==
    << << "I","s","E","n","a","b","l","e","d" >>, << "S","h","e","e","t","N","a","m","e" >>, << "A","p","p","I","d","H","e","a","d","e","r","s" >>, << "D","a","t","a","H","e","a","d","e","r","s","T","o","P","u","l","l" >>, << "S","t","r","a","t","e","g","y" >>, << "V","a","l","u","e","H","e","a","d","e","r","F","o","r","A","g","g","r","e","g","a","t","i","o","n" >>, << "M","a","s","t","e","r","A","p","p","F","i","e","l","d","s","T","o","P","u","l","l" >> >>

ConfigHeaderNoOptional ==
    << << "I","s","E","n","a","b","l","e","d" >>, << "S","h","e","e","t","N","a","m","e" >>, << "A","p","p","I","d","H","e","a","d","e","r","s" >>, << "D","a","t","a","H","e","a","d","e","r","s","T","o","P","u","l","l" >>, << "A","g","g","r","e","g","a","t","i","o","n","T","y","p","e" >> >>

\* Config data rows
RowCountPatches ==
    << << "T","R","U","E" >>, << "P","a","t","c","h","e","s" >>, << "U","n","i","q","u","e","I","D" >>, << "S","e","v","e","r","i","t","y" >>, << "C","o","u","n","t" >>, << >>, << "O","w","n","e","r" >> >>

RowListPatches ==
    << << "t","r","u","e" >>, << "P","a","t","c","h","e","s" >>, << "U","n","i","q","u","e","I","D" >>, << "S","e","v","e","r","i","t","y",","," ","C","o","s","t" >>, << "l","i","s","t" >>, << >>, << "O","w","n","e","r",",","T","i","e","r" >> >>

RowSumScans ==
    << << "T","R","U","E" >>, << "S","c","a","n","s" >>, << "A","p","p"," ","I","D",",","U","n","i","q","u","e","I","D" >>, << "C","o","s","t" >>, << "S","u","m" >>, << "C","o","s","t" >>, << "T","i","e","r" >> >>

RowAverageScans ==
    << << "T","R","U","E" >>, << "S","c","a","n","s" >>, << "U","n","i","q","u","e","I","D" >>, << "C","o","s","t",",","T","a","g" >>, << "A","V","E","R","A","G","E" >>, << "C","o","s","t" >>, << >> >>

RowMaxPatches ==
    << << "T","R","U","E" >>, << "P","a","t","c","h","e","s" >>, << "U","n","i","q","u","e","I","D" >>, << "C","o","s","t" >>, << "m","a","x" >>, << "C","o","s","t" >>, << >> >>

RowMinNoValue ==
    << << "T","R","U","E" >>, << "S","c","a","n","s" >>, << "U","n","i","q","u","e","I","D" >>, << "C","o","s","t" >>, << "M","i","n" >>, << >>, << >> >>

RowUniqueListScans ==
    << << "T","R","U","E" >>, << "S","c","a","n","s" >>, << "U","n","i","q","u","e","I","D" >>, << "T","a","g" >>, << "U","n","i","q","u","e","L","i","s","t" >>, << >>, << >> >>

RowCountScans ==
    << << "T","R","U","E" >>, << "S","c","a","n","s" >>, << "U","n","i","q","u","e","I","D" >>, << "T","a","g",",","C","o","s","t" >>, << "C","o","u","n","t" >>, << >>, << >> >>

RowBogusScans ==
    << << "T","R","U","E" >>, << "S","c","a","n","s" >>, << "U","n","i","q","u","e","I","D" >>, << "T","a","g",",","C","o","s","t" >>, << "B","o","g","u","s" >>, << >>, << "O","w","n","e","r" >> >>

RowDisabled ==
    << << "F","A","L","S","E" >>, << "S","c","a","n","s" >>, << "U","n","i","q","u","e","I","D" >>, << >>, << "S","u","m" >>, << >>, << "Z","o","n","e" >> >>

RowCommaIds ==
    << << "T","R","U","E" >>, << "P","a","t","c","h","e","s" >>, << "," >>, << "S","e","v","e","r","i","t","y" >>, << "L","i","s","t" >>, << >>, << "Z","o","n","e" >> >>

RowNoSheetName ==
    << << "T","R","U","E" >>, << >>, << "U","n","i","q","u","e","I","D" >>, << >>, << "C","o","u","n","t" >>, << >>, << "Z","o","n","e" >> >>

RowShort ==
    << << "T","R","U","E" >>, << "P","a","t","c","h","e","s" >> >>

ConfigRowTemplates ==
    { RowCountPatches, RowListPatches, RowSumScans, RowAverageScans, RowMaxPatches, RowMinNoValue, RowUniqueListScans, RowCountScans, RowBogusScans, RowDisabled, RowCommaIds, RowNoSheetName, RowShort }

\* the most config data rows of a generated Config sheet
MaxCfgRows == 2

\* the most data rows of a generated Patches sheet
MaxSrcRows == 2

SeqsUpTo(S, n) == UNION {[1..m -> S] : m \in 0..n}

\* Applications: two ids (one with surrounding blanks), a repeated id, a blank id
MasterStandard ==
    << << << "A","p","p","l","i","c","a","t","i","o","n"," ","I","D" >>, << "O","w","n","e","r" >>, << "T","i","e","r" >> >>,
       << << "A","1" >>, << "a","n","n" >>, << "1" >> >>,
       << << " ","A","2"," " >>, << "b","o","b" >>, << "2" >> >>,
       << << "A","1" >>, << "z","e","d" >>, << "9" >> >>,
       << << >>, << "x" >>, << "y" >> >> >>

MasterVariants ==
    { MasterStandard,
      << >>,
      << << << "A","p","p","l","i","c","a","t","i","o","n"," ","I","D" >>, << "O","w","n","e","r" >>, << "T","i","e","r" >> >> >>,
      << << << "U","n","i","q","u","e","I","D" >>, << "O","w","n","e","r" >>, << "T","i","e","r" >> >>,
         << << "A","1" >>, << "a","n","n" >>, << "1" >> >> >>,
      << << << " ","a","p","p","l","i","c","a","t","i","o","n"," ","i","d"," " >>, << "T","i","e","r" >> >>,
         << << "A","2" >>, << "2" >> >>,
         << << "A","1" >>, << "1" >> >>,
         << << "a","1" >>, << "3" >> >> >>,
      << << << "A","p","p","l","i","c","a","t","i","o","n"," ","I","D" >>, << "O","w","n","e","r" >> >>,
         << << >>, << "a","n","n" >> >>,
         << << " "," " >>, << "b","o","b" >> >> >> }

\* Patches: the four rows of the Count scenario, with a Cost column
PatchesStandard ==
    << << << "U","n","i","q","u","e","I","D" >>, << "S","e","v","e","r","i","t","y" >>, << "C","o","s","t" >> >>,
       << << "A","1" >>, << "H","i","g","h" >>, << "1","0" >> >>,
       << << "A","1" >>, << "H","i","g","h" >>, << "b","a","d" >> >>,
       << << "A","1" >>, << "L","o","w" >>, << "2","0",".","5" >> >>,
       << << "A","2" >>, << "H","i","g","h" >>, << >> >> >>

PatchesHeader == << << "U","n","i","q","u","e","I","D" >>, << "S","e","v","e","r","i","t","y" >>, << "C","o","s","t" >> >>

PatchesRows ==
    { << << "A","1" >>, << "H","i","g","h" >>, << "1","0" >> >>,
      << << "A","1" >>, << "L","o","w" >>, << >> >>,
      << << " ","A","2"," " >>, << "a" >>, << "b","a","d" >> >>,
      << << "B","7" >>, << "L","o","w" >>, << "5" >> >>,
      << << >>, << "H","i","g","h" >>, << "1" >> >> }

\* Scans: rows of A1 and A2, and of an id the master list does not have
ScansStandard ==
    << << << "U","n","i","q","u","e","I","D" >>, << "C","o","s","t" >>, << "T","a","g" >> >>,
       << << "A","1" >>, << "1","0" >>, << "b" >> >>,
       << << "A","1" >>, << "b","a","d" >>, << "a" >> >>,
       << << "A","1" >>, << "2","0",".","5" >>, << "a" >> >>,
       << << " ","A","2" >>, << "7" >>, << >> >>,
       << << "B","7" >>, << "5" >>, << "z","z" >> >> >>

ScansVariants ==
    { ScansStandard,
      << << << "U","n","i","q","u","e","I","D" >>, << "C","o","s","t" >>, << "T","a","g" >> >> >>,
      << << << "N","a","m","e" >>, << "C","o","s","t" >>, << "T","a","g" >> >>,
         << << "A","1" >>, << "1","0" >>, << "b" >> >> >>,
      << << << "a","p","p"," ","i","d" >>, << "T","a","g" >> >>,
         << << "A","1" >>, << "b" >> >>,
         << << "A","2" >>, << "c" >> >>,
         << << "A","1" >>, << "a" >> >> >>,
      << << << "U","n","i","q","u","e","I","D" >>, << "c","o","s","t" >> >>,
         << << "A","2" >>, << "3" >> >>,
         << << "A","2" >>, << "x" >> >>,
         << << "A","1" >>, << >> >> >> }

\* The Posture Summary sheet a previous run left, and no such sheet
OldSummary ==
    [exists |-> TRUE, header |-> << MASTER_APP_ID_HEADER, sPatches >>,
     data |-> << << Str(idA1), Num(0) >> >>, formatted |-> TRUE]

NoSummary == [exists |-> FALSE, header |-> << >>, data |-> << >>, formatted |-> FALSE]

\* A workbook: each of the four sheets is given as a set holding its grid, or
\* the empty set when the workbook has no such sheet.  raises names the cells
\* whose aggregation raises an exception in the run (none, unless stated).
Workbook(cfg, master, patches, scans, table, prev) ==
    LET opt == [n \in {CONFIG_SHEET_NAME, MASTER_APP_SHEET_NAME, sPatches, sScans} |->
                   IF n = CONFIG_SHEET_NAME THEN cfg
                   ELSE IF n = MASTER_APP_SHEET_NAME THEN master
                   ELSE IF n = sPatches THEN patches
                   ELSE scans]
    IN  [sheets      |-> [n \in {m \in DOMAIN opt : opt[m] # {}} |-> CHOOSE g \in opt[n] : TRUE],
         configTable |-> table,
         summary0    |-> prev,
         raises      |-> {}]

ConfigGrid(header, rows) == << header >> \o rows

\* every Config sheet of at most MaxCfgRows data rows under the canonical header
WorkbooksByConfig ==
    { Workbook({ConfigGrid(ConfigHeaderCanonical, rows)}, {MasterStandard},
               {PatchesStandard}, {ScansStandard}, FALSE, OldSummary) :
        rows \in SeqsUpTo(ConfigRowTemplates, MaxCfgRows) }

\* every Patches sheet of at most MaxSrcRows data rows, under rules that read it
WorkbooksByPatches ==
    { Workbook({ConfigGrid(ConfigHeaderCanonical, cfg)}, {MasterStandard},
               {ConfigGrid(PatchesHeader, rows)}, {ScansStandard}, FALSE, NoSummary) :
        cfg \in { << RowCountPatches >>, << RowListPatches >>, << RowMaxPatches >>,
                  << RowListPatches, RowCountPatches >> },
        rows \in SeqsUpTo(PatchesRows, MaxSrcRows) }

\* the master and Scans variants, and workbooks without those sheets
WorkbooksBySheets ==
    { Workbook({ConfigGrid(ConfigHeaderCanonical, cfg)}, master,
               {PatchesStandard}, scans, FALSE, prev) :
        cfg \in { << RowSumScans, RowUniqueListScans >>, << RowCountPatches, RowAverageScans >>,
                  << RowBogusScans, RowListPatches >> },
        master \in {{m} : m \in MasterVariants} \cup {{}},
        scans \in {{g} : g \in ScansVariants} \cup {{}},
        prev \in {OldSummary, NoSummary} }

\* the config header variants, a config table, an empty and an absent Config sheet
WorkbooksByHeader ==
    { Workbook(cfg, {MasterStandard}, {PatchesStandard}, {ScansStandard}, table, prev) :
        cfg \in { {ConfigGrid(h, << r >>)} :
                    h \in {ConfigHeaderCanonical, ConfigHeaderAliases,
                           ConfigHeaderNoAggType, ConfigHeaderNoOptional},
                    r \in {RowCountPatches, RowSumScans, RowUniqueListScans} }
                \cup { {}, {<< >>}, {<< ConfigHeaderCanonical >>} },
        table \in BOOLEAN,
        prev \in {OldSummary, NoSummary} }

\* runs in which the aggregation of some cells raises an exception
WorkbooksByRaise ==
    { [Workbook({ConfigGrid(ConfigHeaderCanonical, cfg)}, {MasterStandard},
                {PatchesStandard}, {ScansStandard}, FALSE, NoSummary)
          EXCEPT !.raises = r] :
        cfg \in { << RowCountPatches, RowSumScans >>, << RowListPatches >> },
        r \in (SUBSET {<< idA1, sPatches >>, << idA2, sPatches >>, << idA1, sScans >>}) \ {{}} }

Workbooks ==
    WorkbooksByConfig \cup WorkbooksByPatches \cup WorkbooksBySheets \cup WorkbooksByHeader
    \cup WorkbooksByRaise

Init ==
    /\ workbook \in Workbooks
    /\ summarySheet = workbook.summary0
    /\ pc = "start"
    /\ InitLocals
    /\ fnArg = Null
    /\ fnRes = Pending

Spec == Init /\ [][Next]_vars


(***************************************************************************)
(* The helpers on their own                                                *)
(***************************************************************************)

\* A workbook without sheets: the helper specifications run no part of main().
NoWorkbook ==
    [sheets |-> [n \in {} |-> << >>], configTable |-> FALSE, summary0 |-> NoSummary,
     raises |-> {}]

\* the longest string handed to parseNumber
MaxStrLen == 3

\* the most values of one header in a generated store
MaxVals == 2

ParseAlphabet == {"1", "5", ".", "-", "$", "a", " "}

\* parseNumber's arguments: null, every string of at most MaxStrLen characters of
\* ParseAlphabet, longer samples, a number and the booleans.
ParseInputs ==
    {Null, Num(5 * Scale), Bool(TRUE), Bool(FALSE)}
    \cup {Str(t) : t \in SeqsUpTo(ParseAlphabet, MaxStrLen)}
    \cup {Str(<< "$","1",",","2","3","4",".","5","6" >>), Str(<< "a","b","c" >>),
          Str(<< "b","a","d" >>), Str(<< "2","0",".","5" >>),
          Str(<< "-","1",",","0","0","0" >>), Str(<< "1",".","2",".","3" >>)}

InitParse ==
    /\ workbook = NoWorkbook
    /\ summarySheet = NoSummary
    /\ pc = "parse"
    /\ InitLocals
    /\ fnArg \in ParseInputs
    /\ fnRes = Pending

\* line 655: one call of parseNumber
ApplyParseNumber ==
    /\ pc = "parse"
    /\ fnRes' = parseNumber(fnArg)
    /\ pc' = "parsed"
    /\ UNCHANGED << workbook, summarySheet, io, halt, configValues, colIdx, cfgRowI,
                    POSTURE_SHEETS_CONFIG, ruleRow, uniqueMasterFields, configIsValid,
                    masterFieldsToPull, masterAppIds, masterAppDataMap, postureDataMap,
                    cfgPos, summaryHeaders, postureColumnConfigMap, outputData, appPos,
                    droppedApps, fnArg >>

NextParse == ApplyParseNumber

SpecParse == InitParse /\ [][NextParse]_vars

\* The rules handed to the aggregation switch: every strategy of allowedAggTypes
\* over one or two data headers, the value header being a data header or absent
\* as rowIsValid requires of the strategy.
RuleOf(aggregationType, dataHeadersToPull) ==
    [sheetName                 |-> sPatches,
     appIdHeaders              |-> << hUniqueID >>,
     dataHeadersToPull         |-> dataHeadersToPull,
     aggregationType           |-> aggregationType,
     valueHeaderForAggregation |-> IF IsNumericType(aggregationType) THEN hCost ELSE << >>,
     masterFieldsForRow        |-> << >>]

AggregateRules ==
    {RuleOf(t, hs) : t \in SeqToSet(allowedAggTypes),
                     hs \in {<< hCost >>, << hSeverity, hCost >>}}

SeverityValues == {<< "H","i","g","h" >>, << "L","o","w" >>}

CostValues == {<< "1","0" >>, << "b","a","d" >>, << "2","0",".","5" >>}

\* The stores of app id A1: a list per header that has values (the extraction
\* never stores an empty list), or no entry for the app id at all.
StoreOf(severities, costs) ==
    Put(EmptyMap, idA1,
        [h \in {g \in {hSeverity, hCost} :
                   (IF g = hSeverity THEN severities ELSE costs) # << >>} |->
            IF h = hSeverity THEN severities ELSE costs])

AggregateStores ==
    {EmptyMap}
    \cup {StoreOf(sv, cs) : sv \in SeqsUpTo(SeverityValues, MaxVals),
                            cs \in SeqsUpTo(CostValues, MaxVals)}
    \cup {StoreOf(<< >>, << << "1","0" >>, << "b","a","d" >>, << "2","0",".","5" >> >>)}

InitAggregate ==
    /\ workbook = NoWorkbook
    /\ summarySheet = NoSummary
    /\ pc = "aggregate"
    /\ InitLocals
    /\ fnArg \in {[config |-> c, appId |-> a, dataMap |-> d] :
                     c \in AggregateRules, a \in {idA1, idA2}, d \in AggregateStores}
    /\ fnRes = Pending

\* lines 741-771: the cell of one rule column for one app id
ApplyAggregate ==
    /\ pc = "aggregate"
    /\ fnRes' = AggregateCell(fnArg.config, fnArg.appId, fnArg.dataMap)
    /\ pc' = "aggregated"
    /\ UNCHANGED << workbook, summarySheet, io, halt, configValues, colIdx, cfgRowI,
                    POSTURE_SHEETS_CONFIG, ruleRow, uniqueMasterFields, configIsValid,
                    masterFieldsToPull, masterAppIds, masterAppDataMap, postureDataMap,
                    cfgPos, summaryHeaders, postureColumnConfigMap, outputData, appPos,
                    droppedApps, fnArg >>

NextAggregate == ApplyAggregate

SpecAggregate == InitAggregate /\ [][NextAggregate]_vars


(***************************************************************************)
(* main() run again on the workbook it left                                *)
(***************************************************************************)

\* the most runs of main() on one workbook
MaxRuns == 2

\* the runs that reached the summary so far: each adds the summary sheet once
RunsOf(log) ==
    Cardinality({n \in 1..Len(log) : log[n] = Event("add", SUMMARY_SHEET_NAME)})

\* A faulty variant of FreshStore: the store of the previous run is kept.
FreshStoreKept(previous) == previous

\* line 709: const postureDataMap = {}, whatever an earlier run collected
FreshStore(previous) == EmptyMap

\* main() is called again after a finished run: the workbook now holds the
\* summary sheet that run wrote, and every local starts from its initial value.
RunAgain ==
    /\ pc = "done"
    /\ halt = "finished"
    /\ RunsOf(io) < MaxRuns
    /\ workbook' = [workbook EXCEPT !.summary0 = summarySheet]
    /\ pc' = "start"
    /\ halt' = ""
    /\ configValues' = << >>
    /\ colIdx' = NoIdx
    /\ cfgRowI' = 0
    /\ POSTURE_SHEETS_CONFIG' = << >>
    /\ ruleRow' = << >>
    /\ uniqueMasterFields' = << >>
    /\ configIsValid' = TRUE
    /\ masterFieldsToPull' = << >>
    /\ masterAppIds' = {}
    /\ masterAppDataMap' = EmptyMap
    /\ postureDataMap' = FreshStore(postureDataMap)
    /\ cfgPos' = 0
    /\ summaryHeaders' = << >>
    /\ postureColumnConfigMap' = << >>
    /\ outputData' = << >>
    /\ appPos' = 0
    /\ droppedApps' = {}
    /\ UNCHANGED << summarySheet, io, fnArg, fnRes >>

InitTwice ==
    /\ workbook \in WorkbooksByPatches
    /\ summarySheet = workbook.summary0
    /\ pc = "start"
    /\ InitLocals
    /\ fnArg = Null
    /\ fnRes = Pending

NextTwice == Next \/ RunAgain

SpecTwice == InitTwice /\ [][NextTwice]_vars


(***************************************************************************)
(* The extraction loop on its own                                          *)
(***************************************************************************)

\* Rules as the loop of line 709 takes them: of every strategy group, with data
\* headers the Patches sheet may lack (Tag is never among its columns), one
\* that reads a sheet the workbook does not have and one whose id header no
\* sheet has.
ExtractRules ==
    { [RuleOf(sList, << hSeverity, hCost >>) EXCEPT !.appIdHeaders = << << "A","p","p"," ","I","D" >>, hUniqueID >>],
      RuleOf(sCount, << hSeverity >>),
      RuleOf(sUniqueList, << hSeverity, hTag >>),
      RuleOf(sUniqueList, << hTag, hSeverity >>),
      RuleOf(sSum, << hTag, hCost >>),
      RuleOf(sMax, << hCost, hSeverity >>),
      [RuleOf(sList, << hCost >>) EXCEPT !.sheetName = sScans],
      [RuleOf(sCount, << hCost >>) EXCEPT !.appIdHeaders = << << "A","p","p"," ","I","D" >> >>] }

\* one rule, or a rule and after it a rule that reads the Patches sheet
ExtractRuleLists ==
    {<< c >> : c \in ExtractRules}
    \cup {<< c, d >> : c \in ExtractRules,
                      d \in {RuleOf(sCount, << hSeverity >>), RuleOf(sSum, << hTag, hCost >>),
                             RuleOf(sMax, << hCost, hSeverity >>)}}

\* the grid made of the columns cols (1-based) of a grid
Columns(grid, cols) ==
    [n \in 1..Len(grid) |-> [k \in 1..Len(cols) |-> grid[n][cols[k]]]]

\* Patches sheets of at most MaxSrcRows data rows: with all three columns,
\* without the Cost column, without the id column; a sheet of a header row only
\* is among them.
ExtractGrids ==
    { Columns(ConfigGrid(PatchesHeader, rows), cols) :
        rows \in SeqsUpTo(PatchesRows, MaxSrcRows),
        cols \in {<< 1, 2, 3 >>, << 1, 2 >>, << 2, 3 >>} }

ExtractWorkbooks ==
    { [NoWorkbook EXCEPT !.sheets = [n \in {sPatches} |-> g]] : g \in ExtractGrids }
    \cup {NoWorkbook}

\* the state before the first iteration of the loop of line 709
InitExtract ==
    /\ workbook \in ExtractWorkbooks
    /\ summarySheet = NoSummary
    /\ io = << >>
    /\ pc = "extract"
    /\ halt = ""
    /\ configValues = << >>
    /\ colIdx = NoIdx
    /\ cfgRowI = 0
    /\ POSTURE_SHEETS_CONFIG \in ExtractRuleLists
    /\ ruleRow = << >>
    /\ uniqueMasterFields = << >>
    /\ configIsValid = TRUE
    /\ masterFieldsToPull = << >>
    /\ masterAppIds = {idA1, idA2}
    /\ masterAppDataMap = EmptyMap
    /\ postureDataMap = EmptyMap
    /\ cfgPos = 1
    /\ summaryHeaders = << >>
    /\ postureColumnConfigMap = << >>
    /\ outputData = << >>
    /\ appPos = 0
    /\ droppedApps = {}
    /\ fnArg = Null
    /\ fnRes = Pending

NextExtract == ExtractSheet

SpecExtract == InitExtract /\ [][NextExtract]_vars


(***************************************************************************)
(* Properties                                                              *)
(***************************************************************************)

DistinctSheetNames ==
    {POSTURE_SHEETS_CONFIG[k].sheetName : k \in 1..Len(POSTURE_SHEETS_CONFIG)}

\* main() is at or past the write of the data rows
WriteStageReached == pc = "format" \/ (pc = "done" /\ halt = "finished")

\* everything main() did to the workbook so far was to read it
NoOutput ==
    /\ summarySheet = workbook.summary0
    /\ \A k \in 1..Len(io) : io[k].op = "read"

\* C1. Column-count invariant: once the run is at the write stage, the header
\* row has 1 + (number of master fields to pull) + (number of distinct sheet
\* names of the rules) cells, every row handed to the summary sheet and every
\* row the sheet holds has as many cells as the header row, and no row of an
\* app id dropped by the length guard is among them.
ColumnCountInvariant ==
    WriteStageReached =>
        /\ Len(summarySheet.header)
              = 1 + Len(masterFieldsToPull) + Cardinality(DistinctSheetNames)
        /\ summaryHeaders = summarySheet.header
        /\ \A k \in 1..Len(outputData) : Len(outputData[k]) = Len(summarySheet.header)
        /\ \A k \in 1..Len(summarySheet.data) :
              /\ Len(summarySheet.data[k]) = Len(summarySheet.header)
              /\ summarySheet.data[k][1] \notin {Str(a) : a \in droppedApps}

\* C1 happens: two rows were written under a header of the id, two master fields
\* and one column shared by two rules of the same sheet.
ColumnCountWitness ==
    /\ WriteStageReached
    /\ Len(summarySheet.data) = 2
    /\ Len(masterFieldsToPull) = 2
    /\ Len(POSTURE_SHEETS_CONFIG) = 2
    /\ Cardinality(DistinctSheetNames) = 1
    /\ Len(summarySheet.header) = 4

\* The posture grid of a rule without the data rows whose trimmed id (under the
\* rule's id column) is not a master app id.
ForeignFree(config, grid, ids) ==
    LET idCol == IF Len(grid) = 0 THEN -1 ELSE findColumnIndex(grid[1], config.appIdHeaders)
    IN  IF idCol = -1 THEN grid
        ELSE << grid[1] >> \o SelectSeq(Tail(grid),
                                LAMBDA row : Len(row) > idCol /\ Trim(Cell(row, idCol)) \in ids)

WithoutForeignRows(config, wb, ids) ==
    IF HasSheet(wb, config.sheetName)
    THEN [wb EXCEPT !.sheets[config.sheetName] = ForeignFree(config, @, ids)]
    ELSE wb

\* C2. Join filter: every key of postureDataMap is a master app id at every
\* point of the run, and each rule extraction leaves the store exactly as it
\* would be had the rule's sheet not contained the rows whose trimmed id is not
\* a master app id (so such rows add nothing that a cell could show).
JoinFilter ==
    /\ [](DOMAIN postureDataMap \subseteq masterAppIds)
    /\ [][(pc = "extract" /\ cfgPos' = cfgPos + 1) =>
             postureDataMap' =
                 ExtractRule(POSTURE_SHEETS_CONFIG[cfgPos],
                             WithoutForeignRows(POSTURE_SHEETS_CONFIG[cfgPos], workbook,
                                                masterAppIds),
                             masterAppIds, postureDataMap).dataMap]_vars

\* C2 happens: the Scans sheet, which has a row of the unknown id B7 and a row
\* of " A2", was extracted into a store that has both master app ids.
JoinFilterWitness ==
    /\ pc = "extract"
    /\ cfgPos = 2
    /\ POSTURE_SHEETS_CONFIG[1].sheetName = sScans
    /\ HasSheet(workbook, sScans)
    /\ workbook.sheets[sScans] = ScansStandard
    /\ masterAppIds = {idA1, idA2}
    /\ DOMAIN postureDataMap = {idA1, idA2}

\* lower-cased, trimmed cells of a header row
HeaderNames(headerRow) == {Trim(ToLowerCase(headerRow[k])) : k \in 1..Len(headerRow)}

\* The workbook, as given, has no Config sheet, or its config header row lacks
\* one of the four essential columns.
ConfigUnusable(wb) ==
    \/ ~HasSheet(wb, CONFIG_SHEET_NAME)
    \/ /\ Len(wb.sheets[CONFIG_SHEET_NAME]) > 1
       /\ \/ HeaderNames(wb.sheets[CONFIG_SHEET_NAME][1])
                \cap {<< "i","s","e","n","a","b","l","e","d" >>, << "e","n","a","b","l","e","d" >>} = {}
          \/ HeaderNames(wb.sheets[CONFIG_SHEET_NAME][1])
                \cap {<< "s","h","e","e","t","n","a","m","e" >>, << "s","h","e","e","t"," ","n","a","m","e" >>} = {}
          \/ HeaderNames(wb.sheets[CONFIG_SHEET_NAME][1])
                \cap {<< "a","p","p","i","d","h","e","a","d","e","r","s" >>, << "a","p","p"," ","i","d"," ","h","e","a","d","e","r","s" >>,
                      << "a","p","p","l","i","c","a","t","i","o","n"," ","i","d"," ","h","e","a","d","e","r","s" >>} = {}
          \/ HeaderNames(wb.sheets[CONFIG_SHEET_NAME][1])
                \cap {<< "a","g","g","r","e","g","a","t","i","o","n","t","y","p","e" >>,
                      << "a","g","g","r","e","g","a","t","i","o","n"," ","t","y","p","e" >>} = {}

\* The workbook, as given, has no master sheet, or one without data rows, or one
\* without the "Application ID" column.
RegistryUnusable(wb) ==
    \/ ~HasSheet(wb, MASTER_APP_SHEET_NAME)
    \/ Len(wb.sheets[MASTER_APP_SHEET_NAME]) <= 1
    \/ << "a","p","p","l","i","c","a","t","i","o","n"," ","i","d" >> \notin HeaderNames(wb.sheets[MASTER_APP_SHEET_NAME][1])

\* C3. No output on fatal error: in a run on a workbook without a usable Config
\* sheet or a usable master sheet, in a run whose config validation failed, and
\* in a run that returned early for any reason, the summary sheet is as it was
\* before the run and nothing but reads was done to the workbook (stated as:
\* either there was no output, or none of these holds).
NoOutputOnFatalError ==
    \/ NoOutput
    \/ ~(\/ ~configIsValid
         \/ (pc = "done" /\ halt # "finished")
         \/ RegistryUnusable(workbook)
         \/ ConfigUnusable(workbook))

\* C3 happens: the run returned at the master sheet that has a header row alone,
\* and the summary sheet of the previous run is still there.
NoOutputWitness ==
    /\ pc = "done"
    /\ halt = "masterHeaderOnly"
    /\ Len(POSTURE_SHEETS_CONFIG) > 0
    /\ workbook.summary0 = OldSummary
    /\ summarySheet = OldSummary

\* A config data row, under a header row that starts with the five canonical
\* columns, that is enabled, names a sheet and an id header, asks for a numeric
\* strategy and gives no value header.
NumericRowWithoutValueHeader(headerRow, row) ==
    /\ Len(headerRow) >= 5
    /\ SubSeq(headerRow, 1, 5) = SubSeq(ConfigHeaderCanonical, 1, 5)
    /\ Len(row) >= Len(headerRow)
    /\ ToUpperCase(Trim(row[1])) = sTRUE
    /\ Trim(row[2]) # << >>
    /\ ParseList(row[3]) # << >>
    /\ ToLowerCase(Trim(row[5])) \in {<< "s","u","m" >>, << "a","v","e","r","a","g","e" >>, << "m","i","n" >>, << "m","a","x" >>}
    /\ (Len(headerRow) < 6 \/ Trim(row[6]) = << >>)

InvalidRowInInput(wb) ==
    /\ HasSheet(wb, CONFIG_SHEET_NAME)
    /\ \E k \in 2..Len(wb.sheets[CONFIG_SHEET_NAME]) :
          NumericRowWithoutValueHeader(wb.sheets[CONFIG_SHEET_NAME][1],
                                       wb.sheets[CONFIG_SHEET_NAME][k])

\* C4. Fail-closed config validation: once a config row failed validation, the
\* run is still scanning or has returned; it returns only after the last config
\* row was visited, with the invalid-configuration outcome; the master sheet and
\* the posture sheets are never read and the store stays empty.  A workbook whose
\* config has such a row never gets past the scan.
FailClosedValidation ==
    /\ ~configIsValid =>
          /\ pc \in {"scan", "done"}
          /\ pc = "done" => (halt = "configInvalid" /\ cfgRowI = Len(configValues))
          /\ \A k \in 1..Len(io) : io[k] = Event("read", CONFIG_SHEET_NAME)
          /\ masterAppIds = {}
          /\ postureDataMap = EmptyMap
    /\ (InvalidRowInInput(workbook) /\ pc \notin {"start", "scan"}) =>
          (pc = "done" /\ halt = "configInvalid" /\ ~configIsValid)

\* C4 happens: the first config row was invalid, the second row was still
\* visited and accepted as a rule, and the run returned after the scan.
FailClosedWitness ==
    /\ pc = "done"
    /\ halt = "configInvalid"
    /\ InvalidRowInInput(workbook)
    /\ ruleRow = << 2 >>
    /\ cfgRowI = 3


\* The rules whose config row has exactly "UniqueList" in its AggregationType cell
UniqueListRules ==
    {k \in 1..Len(POSTURE_SHEETS_CONFIG) :
        Trim(Cell(configValues[ruleRow[k] + 1], colIdx.AggType)) = sUniqueList}

\* the cell of posture column j in the generated row r
PostureCell(r, j) == outputData[r][1 + Len(masterFieldsToPull) + j]

\* the app id of the generated row r
RowAppId(r) == outputData[r][1].s

\* C5. A config row whose AggregationType cell is "UniqueList" is loaded with
\* the strategy UniqueList, and for an app id whose stored values of the rule's
\* first data header are b, a, a the cell of the rule's column is "a", newline,
\* "b".
UniqueListStrategy ==
    /\ \A k \in UniqueListRules : POSTURE_SHEETS_CONFIG[k].aggregationType = sUniqueList
    /\ WriteStageReached =>
          \A j \in 1..Len(postureColumnConfigMap) : \A r \in 1..Len(outputData) :
              (/\ \E k \in UniqueListRules :
                     POSTURE_SHEETS_CONFIG[k] = postureColumnConfigMap[j].config
               /\ getValuesFromMap(postureDataMap, RowAppId(r),
                                   postureColumnConfigMap[j].config.dataHeadersToPull[1])
                     = << << "b" >>, << "a" >>, << "a" >> >>)
              => PostureCell(r, j) = Str(<< "a", "\n", "b" >>)

\* C6. For a Sum or Average column and an app id whose stored values of the
\* value header are "10", "bad", "20.5", the Sum cell is 30.5 and the Average
\* cell is 15.25.
NumericReductionDropsText ==
    WriteStageReached =>
        \A j \in 1..Len(postureColumnConfigMap) : \A r \in 1..Len(outputData) :
            getValuesFromMap(postureDataMap, RowAppId(r),
                             postureColumnConfigMap[j].config.valueHeaderForAggregation)
                = << << "1","0" >>, << "b","a","d" >>, << "2","0",".","5" >> >>
            => /\ postureColumnConfigMap[j].config.aggregationType = sSum
                     => PostureCell(r, j) = Num(30500)
               /\ postureColumnConfigMap[j].config.aggregationType = sAverage
                     => PostureCell(r, j) = Num(15250)

\* C7. parseNumber returns null for null, for the empty string and for every
\* string without a digit among its characters once everything but digits, "."
\* and "-" is stripped; it returns 1234.56 for "$1,234.56".
ParseNumberNullCases ==
    pc = "parsed" =>
        /\ fnArg = Null => fnRes = Null
        /\ fnArg = Str(<< >>) => fnRes = Null
        /\ (fnArg.k = "str"
            /\ \A n \in 1..Len(StripNonNumeric(fnArg.s)) :
                  IndexIn(DigitChars, StripNonNumeric(fnArg.s)[n]) = 0)
              => fnRes = Null
        /\ fnArg = Str(<< "$","1",",","2","3","4",".","5","6" >>) => fnRes = Num(1234560)

\* The lines of a Count cell against the aligned rows they were made from.
TuplesOf(aligned) == {AlignedParts(aligned, i) : i \in 1..aligned.maxRows}

RowsHaving(aligned, t) == Cardinality({i \in 1..aligned.maxRows : AlignedParts(aligned, i) = t})

LineOf(aligned, t) ==
    Join(t, << " ", "-", " " >>) \o << ":", " " >> \o IntToStr(RowsHaving(aligned, t))

TupleOfLine(aligned, line) == CHOOSE t \in TuplesOf(aligned) : LineOf(aligned, t) = line

\* the number a line ends with, after its last ": "
CountOfLine(line) ==
    DigitsValue(Split(line, << ":", " " >>)[Len(Split(line, << ":", " " >>))])

RECURSIVE SumOfCounts(_)
SumOfCounts(lines) ==
    IF Len(lines) = 0 THEN 0 ELSE CountOfLine(lines[1]) + SumOfCounts(Tail(lines))

CountLinesOk(lines, aligned) ==
    /\ Len(lines) = Cardinality(TuplesOf(aligned))
    /\ {lines[n] : n \in 1..Len(lines)} = {LineOf(aligned, t) : t \in TuplesOf(aligned)}
    /\ SumOfCounts(lines) = aligned.maxRows
    /\ \A n \in 1..Len(lines) : \A m \in (n + 1)..Len(lines) :
          LocaleLess(Join(TupleOfLine(aligned, lines[n]), << "|", "|", "|" >>),
                     Join(TupleOfLine(aligned, lines[m]), << "|", "|", "|" >>))

CountCellOk(cell, aligned) ==
    aligned.maxRows > 0 => (cell.k = "str" /\ CountLinesOk(Split(cell.s, << "\n" >>), aligned))

\* a run whose first rule is "count Severity of Patches", the only rule of that
\* sheet, over the four source rows [A1,High], [A1,High], [A1,Low], [A2,High],
\* and no aggregation raises
CountScenario ==
    /\ HasSheet(workbook, CONFIG_SHEET_NAME)
    /\ Len(workbook.sheets[CONFIG_SHEET_NAME]) >= 2
    /\ workbook.sheets[CONFIG_SHEET_NAME][1] = ConfigHeaderCanonical
    /\ workbook.sheets[CONFIG_SHEET_NAME][2] = RowCountPatches
    /\ \A k \in 3..Len(workbook.sheets[CONFIG_SHEET_NAME]) :
          \/ Len(workbook.sheets[CONFIG_SHEET_NAME][k]) < 2
          \/ workbook.sheets[CONFIG_SHEET_NAME][k][2] # sPatches
    /\ HasSheet(workbook, MASTER_APP_SHEET_NAME)
    /\ workbook.sheets[MASTER_APP_SHEET_NAME] = MasterStandard
    /\ HasSheet(workbook, sPatches)
    /\ workbook.sheets[sPatches] = PatchesStandard
    /\ workbook.raises = {}

\* C8. Count aggregation: for an app id with at least one aligned row, the cell
\* of a Count column has one line per distinct tuple of per-header values, each
\* line being the tuple's values joined by " - ", then ": ", then the number of
\* aligned rows with that tuple; the counts add up to the number of aligned rows
\* and the lines are in localeCompare order of the raw group keys.  In the run
\* over the source rows [A1,High], [A1,High], [A1,Low], [A2,High] the cell of A1
\* is "High: 2", newline, "Low: 1" and the cell of A2 is "High: 1".
CountAggregation ==
    WriteStageReached =>
        /\ \A j \in 1..Len(postureColumnConfigMap) : \A r \in 1..Len(outputData) :
              (/\ postureColumnConfigMap[j].config.aggregationType = sCount
               /\ << RowAppId(r), postureColumnConfigMap[j].header >> \notin workbook.raises) =>
                  CountCellOk(PostureCell(r, j),
                              getAlignedValuesForRowConcatenation(
                                  postureDataMap, RowAppId(r),
                                  postureColumnConfigMap[j].config.dataHeadersToPull))
        /\ CountScenario =>
              /\ Len(summarySheet.data) = 2
              /\ summarySheet.data[1][1] = Str(idA1)
              /\ summarySheet.data[1][2 + Len(masterFieldsToPull)]
                    = Str(<< "H","i","g","h",":"," ","2","\n","L","o","w",":"," ","1" >>)
              /\ summarySheet.data[2][1] = Str(idA2)
              /\ summarySheet.data[2][2 + Len(masterFieldsToPull)]
                    = Str(<< "H","i","g","h",":"," ","1" >>)

\* C8 happens: the scenario's run has written its two rows, and next to the
\* scenario's column a Count column over two data headers was written for an app
\* id with three aligned rows.
CountAggregationWitness ==
    /\ WriteStageReached
    /\ CountScenario
    /\ Len(summarySheet.data) = 2
    /\ \E j \in 1..Len(postureColumnConfigMap) : \E r \in 1..Len(outputData) :
          /\ postureColumnConfigMap[j].config.aggregationType = sCount
          /\ Len(postureColumnConfigMap[j].config.dataHeadersToPull) = 2
          /\ getAlignedValuesForRowConcatenation(
                 postureDataMap, RowAppId(r),
                 postureColumnConfigMap[j].config.dataHeadersToPull).maxRows = 3
          /\ Len(Split(PostureCell(r, j).s, << "\n" >>)) = 3

\* the headers of a rule: its data headers and its value header
RuleHeaders(config) ==
    SeqToSet(config.dataHeadersToPull)
    \cup (IF config.valueHeaderForAggregation # << >>
          THEN {config.valueHeaderForAggregation} ELSE {})

\* C9. The cell of a rule for an app id that has no stored values under any of
\* the rule's headers is the number 0 when the strategy is Count and the empty
\* string for List, Sum, Average, Min, Max and UniqueList.
MissingSentinel ==
    (/\ pc = "aggregated"
     /\ \A h \in RuleHeaders(fnArg.config) :
            getValuesFromMap(fnArg.dataMap, fnArg.appId, h) = << >>)
    => fnRes = IF fnArg.config.aggregationType = sCount THEN Num(0) ELSE Str(<< >>)

\* C9 happens: a Count rule was applied to an app id the store has no entry of,
\* while the store has values of another app id.
MissingSentinelWitness ==
    /\ pc = "aggregated"
    /\ fnArg.config.aggregationType = sCount
    /\ fnArg.appId = idA2
    /\ fnArg.dataMap # EmptyMap
    /\ fnRes = Num(0)

\* the first rule of the sheet of rule k
FirstRuleOf(k) ==
    CHOOSE m \in 1..k :
        /\ POSTURE_SHEETS_CONFIG[m].sheetName = POSTURE_SHEETS_CONFIG[k].sheetName
        /\ \A n \in 1..(m - 1) :
              POSTURE_SHEETS_CONFIG[n].sheetName # POSTURE_SHEETS_CONFIG[k].sheetName

HasDuplicateSheet == Cardinality(DistinctSheetNames) < Len(POSTURE_SHEETS_CONFIG)

\* C10. Rules of the same sheet: once the header row is written, each rule's
\* sheet name is in it exactly once, the column of that name belongs to the first
\* rule of the sheet in config order, and every generated cell of the column is
\* what that first rule's strategy gives.  A run with such rules that got a valid
\* config and a usable master sheet does not return early: it ends with the
\* header row and the generated rows on the summary sheet.
DuplicateSheetFirstWins ==
    /\ pc \in {"rows", "format", "done"} /\ (pc = "done" => halt = "finished") =>
          \A k \in 1..Len(POSTURE_SHEETS_CONFIG) :
              /\ Cardinality({n \in 1..Len(summarySheet.header) :
                                 summarySheet.header[n] = POSTURE_SHEETS_CONFIG[k].sheetName}) = 1
              /\ \E j \in 1..Len(postureColumnConfigMap) :
                    /\ postureColumnConfigMap[j].header = POSTURE_SHEETS_CONFIG[k].sheetName
                    /\ postureColumnConfigMap[j].config = POSTURE_SHEETS_CONFIG[FirstRuleOf(k)]
                    /\ \A r \in 1..Len(outputData) :
                          << RowAppId(r), postureColumnConfigMap[j].header >> \notin workbook.raises
                          => PostureCell(r, j) =
                                AggregateCell(POSTURE_SHEETS_CONFIG[FirstRuleOf(k)], RowAppId(r),
                                              postureDataMap)
    /\ (pc = "done" /\ HasDuplicateSheet /\ configIsValid /\ ~RegistryUnusable(workbook)) =>
          /\ halt = "finished"
          /\ summarySheet.exists
          /\ summarySheet.header = summaryHeaders
          /\ summarySheet.data = outputData
          /\ Len(outputData) = Cardinality(masterAppIds)

\* C10 happens: a List rule and then a Count rule of the same sheet were
\* accepted, and the run ended with rows written.
DuplicateSheetWitness ==
    /\ pc = "done"
    /\ halt = "finished"
    /\ Len(POSTURE_SHEETS_CONFIG) = 2
    /\ POSTURE_SHEETS_CONFIG[1].sheetName = POSTURE_SHEETS_CONFIG[2].sheetName
    /\ POSTURE_SHEETS_CONFIG[1].aggregationType = sList
    /\ POSTURE_SHEETS_CONFIG[2].aggregationType = sCount
    /\ Len(summarySheet.data) = 2


\* the elements of a sequence, each kept at its first position only
RECURSIVE FirstOccurrences(_)
FirstOccurrences(q) ==
    IF Len(q) = 0 THEN << >>
    ELSE FirstOccurrences(SubSeq(q, 1, Len(q) - 1))
         \o (IF \E k \in 1..(Len(q) - 1) : q[k] = q[Len(q)] THEN << >> ELSE << q[Len(q)] >>)

\* the master fields requested by the accepted rules, in rule order
RECURSIVE RequestedByRules(_)
RequestedByRules(configs) ==
    IF Len(configs) = 0 THEN << >>
    ELSE configs[1].masterFieldsForRow \o RequestedByRules(Tail(configs))

SheetNamesOf(configs) == [k \in 1..Len(configs) |-> configs[k].sheetName]

\* the header row is on the summary sheet
HeaderWritten == pc \in {"rows", "format"} \/ (pc = "done" /\ halt = "finished")

\* C11. The header row is the id header, then the master fields the accepted
\* rules request, each once in order of first request, then the sheet names of
\* the accepted rules, each once in order of first occurrence; and it is the
\* same at every later point of the run.
HeaderSchemaExact ==
    HeaderWritten =>
        /\ summarySheet.header = summaryHeaders
        /\ summaryHeaders =
              << MASTER_APP_ID_HEADER >>
              \o FirstOccurrences(RequestedByRules(POSTURE_SHEETS_CONFIG))
              \o FirstOccurrences(SheetNamesOf(POSTURE_SHEETS_CONFIG))

\* The part of C11 that does not depend on who requested a field: the header row
\* ends with the sheet names in order of first occurrence, starts with the id
\* header, has every field once, and no step after its writing changes it.
HeaderSchemaStable ==
    /\ [](HeaderWritten =>
            /\ summarySheet.header = summaryHeaders
            /\ summaryHeaders =
                  << MASTER_APP_ID_HEADER >> \o FirstOccurrences(masterFieldsToPull)
                  \o FirstOccurrences(SheetNamesOf(POSTURE_SHEETS_CONFIG)))
    /\ [][HeaderWritten =>
             (summaryHeaders' = summaryHeaders /\ summarySheet'.header = summarySheet.header)]_vars


\* C12. The written data rows are one row per master app id, each row starting
\* with its id, in strictly ascending code unit order of the ids (so that no id
\* is repeated).
OneRowPerMasterId ==
    WriteStageReached =>
        /\ Len(summarySheet.data) = Cardinality(masterAppIds)
        /\ {summarySheet.data[n][1] : n \in 1..Len(summarySheet.data)}
              = {Str(a) : a \in masterAppIds}
        /\ \A n \in 1..Len(summarySheet.data) : \A m \in (n + 1)..Len(summarySheet.data) :
              CodeLess(summarySheet.data[n][1].s, summarySheet.data[m][1].s)

\* C12 happens: the master sheet lists A2, A1 and a1 in that order, and the three
\* rows were written as A1, A2, a1.
OneRowPerMasterIdWitness ==
    /\ WriteStageReached
    /\ HasSheet(workbook, MASTER_APP_SHEET_NAME)
    /\ Len(workbook.sheets[MASTER_APP_SHEET_NAME]) = 4
    /\ workbook.sheets[MASTER_APP_SHEET_NAME][2][1] = idA2
    /\ Len(summarySheet.data) = 3
    /\ summarySheet.data[1][1] = Str(idA1)
    /\ summarySheet.data[3][1] = Str(<< "a", "1" >>)


\* the master sheet was loaded
MasterIsLoaded == pc \in {"extract", "header", "rows", "format"} \/ (pc = "done" /\ halt = "finished")

\* the data rows (as 1-based grid positions) of a master grid whose trimmed id is id
MasterRowsOf(grid, idCol, id) ==
    {k \in 2..Len(grid) : Len(grid[k]) > idCol /\ Trim(grid[k][idCol + 1]) = id}

FirstMasterRowOf(grid, idCol, id) ==
    CHOOSE k \in MasterRowsOf(grid, idCol, id) : \A m \in MasterRowsOf(grid, idCol, id) : k <= m

FirstWinsIn(grid, idCol) ==
    /\ masterAppIds = {Trim(grid[k][idCol + 1]) : k \in {n \in 2..Len(grid) : Len(grid[n]) > idCol}}
                         \ {<< >>}
    /\ DOMAIN masterAppDataMap = masterAppIds
    /\ \A id \in masterAppIds : \A f \in SeqToSet(masterFieldsToPull) :
          IF findColumnIndex(grid[1], << f >>) # -1
          THEN /\ f \in DOMAIN masterAppDataMap[id]
               /\ masterAppDataMap[id][f] =
                     grid[FirstMasterRowOf(grid, idCol, id)][findColumnIndex(grid[1], << f >>) + 1]
          ELSE f \notin DOMAIN masterAppDataMap[id]

\* C13. Master loading is first-wins: once the master sheet is loaded,
\* masterAppIds is the set of the trimmed non-blank ids of its rows, and the
\* entry of each id in masterAppDataMap holds, for every requested field the
\* header row has, the cell of the first row of that id; it stays so to the end
\* of the run.
MasterFirstWins ==
    MasterIsLoaded =>
        FirstWinsIn(workbook.sheets[MASTER_APP_SHEET_NAME],
                    findColumnIndex(workbook.sheets[MASTER_APP_SHEET_NAME][1],
                                    << MASTER_APP_ID_HEADER >>))

\* C13 happens: the master sheet has two rows of A1, with owners "ann" and then
\* "zed"; the owner kept for A1 is "ann", and the row of A1 was written with it.
MasterFirstWinsWitness ==
    /\ WriteStageReached
    /\ workbook.sheets[MASTER_APP_SHEET_NAME] = MasterStandard
    /\ masterFieldsToPull = << << "O","w","n","e","r" >> >>
    /\ masterAppDataMap[idA1][<< "O","w","n","e","r" >>] = << "a","n","n" >>
    /\ summarySheet.data[1][2] = Str(<< "a","n","n" >>)


(***************************************************************************)
(* findColumnIndex on its own                                              *)
(***************************************************************************)

\* the most cells of a generated header row
MaxHeaderCols == 3

\* the most candidate names of a generated call
MaxCandidates == 2

ResolveCells ==
    {<< " ","S","h","e","e","t"," ","N","a","m","e"," " >>, << "S","H","E","E","T","N","A","M","E" >>, << "s","h","e","e","t"," ","n","a","m","e" >>, << "E","n","a","b","l","e","d" >>, << >>}

\* candidate names are trimmed, non-empty strings, as every caller passes them
ResolveCandidates ==
    {<< "S","h","e","e","t","N","a","m","e" >>, << "S","h","e","e","t"," ","N","a","m","e" >>, << "e","n","a","b","l","e","d" >>}

InitResolve ==
    /\ workbook = NoWorkbook
    /\ summarySheet = NoSummary
    /\ pc = "resolve"
    /\ InitLocals
    /\ fnArg \in {[headerRowValues |-> h, possibleHeaders |-> c] :
                     h \in SeqsUpTo(ResolveCells, MaxHeaderCols),
                     c \in SeqsUpTo(ResolveCandidates, MaxCandidates)}
    /\ fnRes = Pending

\* lines 652-654: one call of findColumnIndex
ApplyResolve ==
    /\ pc = "resolve"
    /\ fnRes' = findColumnIndex(fnArg.headerRowValues, fnArg.possibleHeaders)
    /\ pc' = "resolved"
    /\ UNCHANGED << workbook, summarySheet, io, halt, configValues, colIdx, cfgRowI,
                    POSTURE_SHEETS_CONFIG, ruleRow, uniqueMasterFields, configIsValid,
                    masterFieldsToPull, masterAppIds, masterAppDataMap, postureDataMap,
                    cfgPos, summaryHeaders, postureColumnConfigMap, outputData, appPos,
                    droppedApps, fnArg >>

NextResolve == ApplyResolve

SpecResolve == InitResolve /\ [][NextResolve]_vars

\* a header cell and a candidate name are the same up to case and outer blanks
SameName(cell, candidate) == Trim(ToLowerCase(cell)) = Trim(ToLowerCase(candidate))

\* the positions of the candidates that match some cell of the header row
MatchingCandidates(headerRow, candidates) ==
    {c \in 1..Len(candidates) : \E k \in 1..Len(headerRow) : SameName(headerRow[k], candidates[c])}

Lowest(S) == CHOOSE x \in S : \A y \in S : x <= y

\* C14. findColumnIndex returns -1 exactly when no candidate matches a cell of
\* the header row up to case and outer blanks; otherwise it returns the (0-based)
\* lowest column whose cell matches the first candidate that matches any cell.
ResolvePriority ==
    pc = "resolved" =>
        IF MatchingCandidates(fnArg.headerRowValues, fnArg.possibleHeaders) = {}
        THEN fnRes = -1
        ELSE fnRes + 1 =
                Lowest({k \in 1..Len(fnArg.headerRowValues) :
                           SameName(fnArg.headerRowValues[k],
                                    fnArg.possibleHeaders[
                                        Lowest(MatchingCandidates(fnArg.headerRowValues,
                                                                  fnArg.possibleHeaders))])})

\* C14 happens: the header row is ["Enabled", "sheet name", " Sheet Name "] and
\* the candidates are ["Sheet Name", "enabled"]: the result is column 1, the
\* lowest match of the first candidate, not column 0, which the second matches.
ResolvePriorityWitness ==
    /\ pc = "resolved"
    /\ fnArg.headerRowValues = << << "E","n","a","b","l","e","d" >>, << "s","h","e","e","t"," ","n","a","m","e" >>, << " ","S","h","e","e","t"," ","N","a","m","e"," " >> >>
    /\ fnArg.possibleHeaders = << << "S","h","e","e","t"," ","N","a","m","e" >>, << "e","n","a","b","l","e","d" >> >>
    /\ fnRes = 1


sERROR == << "E","R","R","O","R" >>

\* the aggregation of the cell of column j in the generated row r raised
Raised(r, j) == << RowAppId(r), postureColumnConfigMap[j].header >> \in workbook.raises

\* C15. When the aggregation of one app id under one column raises an exception,
\* that cell is the string "ERROR" and nothing else changes: every generated row
\* still has one cell per header cell, the master cells and the cells whose
\* aggregation did not raise are what they are in a run without exceptions, and
\* the rows of all master app ids are generated and written.
ErrorCellOnly ==
    WriteStageReached =>
        /\ Len(outputData) = Cardinality(masterAppIds)
        /\ summarySheet.data = outputData
        /\ \A r \in 1..Len(outputData) :
              /\ Len(outputData[r]) = Len(summaryHeaders)
              /\ SubSeq(outputData[r], 2, 1 + Len(masterFieldsToPull))
                    = MasterCells(masterFieldsToPull, masterAppDataMap[RowAppId(r)])
              /\ \A j \in 1..Len(postureColumnConfigMap) :
                    PostureCell(r, j) =
                        IF Raised(r, j) THEN Str(sERROR)
                        ELSE AggregateCell(postureColumnConfigMap[j].config, RowAppId(r),
                                           postureDataMap)

\* C15 happens: the aggregation of the Patches cell of A1 raised; the row of A1
\* has "ERROR" there and the sum 30.5 in its Scans cell, and the row of A2 has
\* its count line.
ErrorCellWitness ==
    /\ WriteStageReached
    /\ workbook.raises = {<< idA1, sPatches >>}
    /\ Len(postureColumnConfigMap) = 2
    /\ Len(summarySheet.data) = 2
    /\ summarySheet.data[1][1] = Str(idA1)
    /\ summarySheet.data[1][Len(summaryHeaders) - 1] = Str(sERROR)
    /\ summarySheet.data[1][Len(summaryHeaders)] = Num(30500)
    /\ summarySheet.data[2][Len(summaryHeaders) - 1] = Str(<< "H","i","g","h",":"," ","1" >>)


\* a run after the first has finished
RerunFinished == pc = "done" /\ halt = "finished" /\ RunsOf(io) >= 2

\* C16. Running main() again on the same config, master list and source sheets
\* gives the summary of the run before: each run starts with an empty store and
\* no output rows, and when it has finished the header and the number of rows are
\* those the previous run wrote and every Count cell equals the cell the previous
\* run wrote at that place.
RerunSameCounts ==
    /\ pc = "start" => (postureDataMap = EmptyMap /\ outputData = << >>)
    /\ RerunFinished =>
          /\ summarySheet.header = workbook.summary0.header
          /\ Len(summarySheet.data) = Len(workbook.summary0.data)
          /\ \A r \in 1..Len(summarySheet.data) :
                \A j \in 1..Len(postureColumnConfigMap) :
                    postureColumnConfigMap[j].config.aggregationType = sCount
                    => summarySheet.data[r][1 + Len(masterFieldsToPull) + j]
                         = workbook.summary0.data[r][1 + Len(masterFieldsToPull) + j]

\* C16 happens: a second run has finished over two Patches rows of A1 and its
\* Count cell of A1 has the two lines "High: 1" and "Low: 1".
RerunWitness ==
    /\ RerunFinished
    /\ Len(postureColumnConfigMap) = 1
    /\ postureColumnConfigMap[1].config.aggregationType = sCount
    /\ Len(summarySheet.data) = 2
    /\ summarySheet.data[1][Len(summaryHeaders)]
          = Str(<< "H","i","g","h",":"," ","1","\n","L","o","w",":"," ","1" >>)


\* The grid with every non-empty data cell under one of the columns cols
\* (0-based) replaced by the number of its row: what is stored from the grid
\* then tells the source row of each stored value.
SourceRowTags(grid, cols) ==
    [n \in 1..Len(grid) |->
        IF n = 1 THEN grid[1]
        ELSE [c \in 1..Len(grid[n]) |->
                 IF (c - 1) \in cols /\ grid[n][c] # << >>
                 THEN << DigitChars[n + 1] >>
                 ELSE grid[n][c]]]

\* the 0-based columns a rule stores values from, its id column left out
DataColumnsOf(config, grid) ==
    {DataColIndicesMap(config, grid[1])[h] : h \in DOMAIN DataColIndicesMap(config, grid[1])}
    \ {findColumnIndex(grid[1], config.appIdHeaders)}

\* the source row of every value the rule stores, per app id and header
SourceRowsStored(config, wb, ids) ==
    ExtractRule(config,
                [wb EXCEPT !.sheets[config.sheetName] =
                    SourceRowTags(@, DataColumnsOf(config, @))],
                ids, EmptyMap).dataMap

SameSourceRows(rows, appId, headers) ==
    \A j1 \in 1..Len(headers) : \A j2 \in 1..Len(headers) :
        \A i \in 1..Len(getValuesFromMap(rows, appId, headers[j1])) :
            i <= Len(getValuesFromMap(rows, appId, headers[j2]))
            => getValuesFromMap(rows, appId, headers[j1])[i]
                 = getValuesFromMap(rows, appId, headers[j2])[i]

\* C17. Row alignment: for a List or Count rule with several data headers, the
\* i-th stored value of one header and the i-th stored value of another header
\* of the same app id were read from the same source row, also when source rows
\* have an empty cell under one of the headers.
RowAlignment ==
    WriteStageReached =>
        \A k \in 1..Len(POSTURE_SHEETS_CONFIG) :
            (/\ POSTURE_SHEETS_CONFIG[k].aggregationType \in {sList, sCount}
             /\ Len(POSTURE_SHEETS_CONFIG[k].dataHeadersToPull) >= 2
             /\ HasSheet(workbook, POSTURE_SHEETS_CONFIG[k].sheetName)
             /\ Len(workbook.sheets[POSTURE_SHEETS_CONFIG[k].sheetName]) >= 2)
            => \A a \in masterAppIds :
                  SameSourceRows(SourceRowsStored(POSTURE_SHEETS_CONFIG[k], workbook,
                                                  masterAppIds),
                                 a, POSTURE_SHEETS_CONFIG[k].dataHeadersToPull)


\* the store after the extraction of the rules i.. of configs that read sheet
\* name, in their order, the other rules left out
RECURSIVE ExtractOfSheet(_, _, _, _, _, _)
ExtractOfSheet(configs, i, name, wb, ids, dataMap) ==
    IF i > Len(configs) THEN dataMap
    ELSE ExtractOfSheet(configs, i + 1, name, wb, ids,
                        IF configs[i].sheetName = name
                        THEN ExtractRule(configs[i], wb, ids, dataMap).dataMap
                        ELSE dataMap)

\* C18. Source isolation: the cell of a column is computed from the values that
\* were extracted from the sheet of its rule only; what the rules of other sheets
\* extracted under the same header name does not enter it.
SourceIsolation ==
    WriteStageReached =>
        \A j \in 1..Len(postureColumnConfigMap) : \A r \in 1..Len(outputData) :
            ~Raised(r, j)
            => PostureCell(r, j) =
                  AggregateCell(postureColumnConfigMap[j].config, RowAppId(r),
                                ExtractOfSheet(POSTURE_SHEETS_CONFIG, 1,
                                               postureColumnConfigMap[j].header,
                                               workbook, masterAppIds, EmptyMap))


\* the accepted rules that are not a later rule of an earlier rule's sheet
RulesKept == {k \in 1..Len(POSTURE_SHEETS_CONFIG) : FirstRuleOf(k) = k}

\* a sequence without the positions outside keep
RECURSIVE Restrict(_, _, _)
Restrict(q, n, keep) ==
    IF n > Len(q) THEN << >>
    ELSE (IF n \in keep THEN << q[n] >> ELSE << >>) \o Restrict(q, n + 1, keep)

\* the Config grid without the rows of the later duplicate rules
ConfigWithoutDuplicates ==
    Restrict(configValues, 1,
             (1..Len(configValues)) \ {ruleRow[k] + 1 : k \in (1..Len(ruleRow)) \ RulesKept})

\* uniqueMasterFields after the scan of the data rows n.. of a Config grid
RECURSIVE FieldsOfGrid(_, _, _, _)
FieldsOfGrid(grid, n, idx, acc) ==
    IF n > Len(grid) THEN acc
    ELSE FieldsOfGrid(grid, n + 1, idx, AddAll(acc, ParseConfigRow(grid[n], idx).masterFields))

\* the store after the extraction of the rules i.. of configs
RECURSIVE ExtractAll(_, _, _, _, _)
ExtractAll(configs, i, wb, ids, dataMap) ==
    IF i > Len(configs) THEN dataMap
    ELSE ExtractAll(configs, i + 1, wb, ids, ExtractRule(configs[i], wb, ids, dataMap).dataMap)

\* the header row and the data rows a run writes for the accepted rules configs
\* and the master fields fields
SummaryOfRules(configs, fields, store) ==
    [header |-> SummaryHeaders(fields, PostureColumns(configs, << >>)),
     data   |-> [r \in 1..Cardinality(masterAppIds) |->
                    BuildRow(masterAppIdArray[r], fields, masterAppDataMap,
                             PostureColumns(configs, << >>), store, workbook.raises)]]

SummaryWithoutDuplicates ==
    SummaryOfRules(Restrict(POSTURE_SHEETS_CONFIG, 1, RulesKept),
                   FieldsOfGrid(ConfigWithoutDuplicates, 2, colIdx, << >>),
                   ExtractAll(Restrict(POSTURE_SHEETS_CONFIG, 1, RulesKept), 1, workbook,
                              masterAppIds, EmptyMap))

\* C19. A later rule of an earlier rule's sheet adds nothing to the output: the
\* header row and the data rows written are those written from the Config sheet
\* without the rows of such rules, also when both rules list the same data
\* header.
DroppedDuplicateAddsNothing ==
    (pc = "done" /\ halt = "finished") =>
        /\ summarySheet.header = SummaryWithoutDuplicates.header
        /\ summarySheet.data = SummaryWithoutDuplicates.data


\* what the claim C20 asks of one accepted rule
RuleWellFormed(config) ==
    /\ config.sheetName # << >>
    /\ Len(config.appIdHeaders) >= 1
    /\ config.aggregationType \in {sList, sCount, sSum, sAverage, sMin, sMax, sUniqueList}
    /\ config.aggregationType \in {sList, sCount, sUniqueList}
          => Len(config.dataHeadersToPull) >= 1
    /\ config.aggregationType \in {sSum, sAverage, sMin, sMax}
          => /\ config.valueHeaderForAggregation # << >>
             /\ \E n \in 1..Len(config.dataHeadersToPull) :
                   config.dataHeadersToPull[n] = config.valueHeaderForAggregation

\* C20. Every entry of POSTURE_SHEETS_CONFIG has a non-empty sheet name, at least
\* one app id header and one of the seven aggregation types; with List, Count or
\* UniqueList it has at least one data header, and with Sum, Average, Min or Max
\* it has a value header that is one of its data headers.
AcceptedRulesWellFormed ==
    \A k \in 1..Len(POSTURE_SHEETS_CONFIG) : RuleWellFormed(POSTURE_SHEETS_CONFIG[k])

\* C20 happens: the scan of a Config sheet is over; it accepted a Sum rule and
\* rejected another row as invalid.
AcceptedRulesWitness ==
    /\ pc = "scan"
    /\ cfgRowI = Len(configValues)
    /\ Len(POSTURE_SHEETS_CONFIG) = 1
    /\ POSTURE_SHEETS_CONFIG[1].aggregationType = sSum
    /\ ~configIsValid


\* the strategy cell of a config row, trimmed, its first letter capitalised and
\* the rest lower-cased
StrategyNameOf(row) ==
    IF Len(Trim(Cell(row, colIdx.AggType))) = 0 THEN << >>
    ELSE << ToUpperChar(Trim(Cell(row, colIdx.AggType))[1]) >>
         \o ToLowerCase(Tail(Trim(Cell(row, colIdx.AggType))))

\* a config row long enough to be parsed whose strategy name is none of the seven
UnknownStrategy(row) ==
    /\ Len(row) > MaxIndex(colIdx)
    /\ StrategyNameOf(row) \notin {sList, sCount, sSum, sAverage, sMin, sMax, sUniqueList}

\* the row with "List" in its strategy cell
RowWithList(row) == [row EXCEPT ![colIdx.AggType + 1] = sList]

\* the config rows visited so far, while the scan is at work (what it leaves
\* is not changed afterwards)
RowsScanned == IF pc = "scan" THEN 2..cfgRowI ELSE {}

\* C21. A config row whose strategy name is none of the seven allowed names is
\* treated exactly as the same row with strategy List: a rule accepted from it
\* has strategy List, what the row does to the rule list, the master fields and
\* the validity flag is what the List row does, and at every point of the scan
\* the validity flag is false only when some visited row is invalid with its
\* unknown strategy read as List.
StrategyFallback ==
    pc = "scan" =>
    /\ \A k \in 1..Len(ruleRow) :
          UnknownStrategy(configValues[ruleRow[k] + 1])
          => POSTURE_SHEETS_CONFIG[k].aggregationType = sList
    /\ \A n \in RowsScanned :
          UnknownStrategy(configValues[n])
          => ParseConfigRow(configValues[n], colIdx)
               = ParseConfigRow(RowWithList(configValues[n]), colIdx)
    /\ configIsValid =
          \A n \in RowsScanned :
              ParseConfigRow(IF UnknownStrategy(configValues[n])
                             THEN RowWithList(configValues[n]) ELSE configValues[n],
                             colIdx).kind # "invalid"

\* C21 happens: the row with strategy "Bogus" was accepted as a List rule of
\* Scans and the scan ended with a valid configuration.
StrategyFallbackWitness ==
    /\ pc = "scan"
    /\ cfgRowI = Len(configValues)
    /\ configIsValid
    /\ Len(POSTURE_SHEETS_CONFIG) >= 1
    /\ configValues[ruleRow[1] + 1] = RowBogusScans
    /\ POSTURE_SHEETS_CONFIG[1].aggregationType = sList
    /\ POSTURE_SHEETS_CONFIG[1].sheetName = sScans


\* a config row that is shorter than the highest resolved column index, is not
\* enabled, or has an empty sheet name or id headers cell
SkipCondition(row) ==
    \/ Len(row) <= MaxIndex(colIdx)
    \/ ToUpperCase(Trim(Cell(row, colIdx.IsEnabled))) # sTRUE
    \/ Trim(Cell(row, colIdx.SheetName)) = << >>
    \/ Trim(Cell(row, colIdx.AppIdHeaders)) = << >>

\* C22. A config row that is too short, not enabled or without sheet name or id
\* headers gives no rule and does not clear the validity flag, whatever its
\* other cells hold: no accepted rule comes from such a row, the flag is cleared
\* only when a visited row is not such a row, and there are at most as many
\* rules as visited rows that are not such rows, at every point of the scan.
SkippedRowHarmless ==
    pc = "scan" =>
    /\ \A n \in RowsScanned :
          SkipCondition(configValues[n])
          => /\ ParseConfigRow(configValues[n], colIdx).kind = "skip"
             /\ \A k \in 1..Len(ruleRow) : ruleRow[k] + 1 # n
    /\ ~configIsValid => \E n \in RowsScanned : ~SkipCondition(configValues[n])
    /\ Len(POSTURE_SHEETS_CONFIG)
          <= Cardinality({n \in RowsScanned : ~SkipCondition(configValues[n])})

\* C22 happens: a disabled Sum row without data and value header and an enabled
\* Count row without sheet name were visited, no rule was accepted and the
\* configuration is still valid.
SkippedRowWitness ==
    /\ pc = "scan"
    /\ cfgRowI = 3
    /\ configValues[2] = RowDisabled
    /\ configValues[3] = RowNoSheetName
    /\ configIsValid
    /\ POSTURE_SHEETS_CONFIG = << >>


\* the headers whose absence aborts the rule
CriticalHeaders(config) ==
    IF config.aggregationType \in {sList, sCount} THEN SeqToSet(config.dataHeadersToPull)
    ELSE IF config.aggregationType = sUniqueList
         THEN {config.dataHeadersToPull[n] : n \in {1} \cap DOMAIN config.dataHeadersToPull}
    ELSE {config.valueHeaderForAggregation}

\* the sheet of the rule has no column named header
HeaderMissing(config, wb, header) ==
    findColumnIndex(wb.sheets[config.sheetName][1], << header >>) = -1

\* the rule's sheet is missing or has a header row only, its id column does not
\* resolve, or a critical header is missing
RuleSkipped(config, wb) ==
    \/ ~HasSheet(wb, config.sheetName)
    \/ Len(wb.sheets[config.sheetName]) <= 1
    \/ findColumnIndex(wb.sheets[config.sheetName][1], config.appIdHeaders) = -1
    \/ \E h \in CriticalHeaders(config) : HeaderMissing(config, wb, h)

\* the rule without the data headers its sheet does not have
WithoutMissingHeaders(config, wb) ==
    [config EXCEPT !.dataHeadersToPull =
        SelectSeq(@, LAMBDA h : ~HeaderMissing(config, wb, h))]

\* C23. Rule-level skip: the iteration of a rule whose sheet is missing or
\* header-only, whose id column does not resolve or which misses a critical
\* header leaves the store as it was; the iteration of any other rule stores what
\* the rule without its missing headers stores and leaves the lists of the
\* missing headers as they were; either way the loop goes on with the next rule.
RuleLevelSkip ==
    [][(pc = "extract" /\ cfgPos' = cfgPos + 1) =>
          /\ pc' = "extract"
          /\ RuleSkipped(POSTURE_SHEETS_CONFIG[cfgPos], workbook)
                => postureDataMap' = postureDataMap
          /\ ~RuleSkipped(POSTURE_SHEETS_CONFIG[cfgPos], workbook)
                => /\ postureDataMap' =
                        ExtractRule(WithoutMissingHeaders(POSTURE_SHEETS_CONFIG[cfgPos], workbook),
                                    workbook, masterAppIds, postureDataMap).dataMap
                   /\ \A a \in masterAppIds :
                        \A h \in SeqToSet(POSTURE_SHEETS_CONFIG[cfgPos].dataHeadersToPull) :
                            HeaderMissing(POSTURE_SHEETS_CONFIG[cfgPos], workbook, h)
                            => getValuesFromMap(postureDataMap', a, h)
                                 = getValuesFromMap(postureDataMap, a, h)]_vars

\* C23 happens: the first rule, a UniqueList rule whose first data header Tag
\* the sheet does not have, was skipped, and the second, a Sum rule of Cost that
\* also asks for Tag, stored the Cost values of A1 and nothing under Tag.
RuleLevelSkipWitness ==
    /\ pc = "extract"
    /\ cfgPos = 3
    /\ POSTURE_SHEETS_CONFIG = << RuleOf(sUniqueList, << hTag, hSeverity >>),
                                  RuleOf(sSum, << hTag, hCost >>) >>
    /\ RuleSkipped(POSTURE_SHEETS_CONFIG[1], workbook)
    /\ ~RuleSkipped(POSTURE_SHEETS_CONFIG[2], workbook)
    /\ DOMAIN postureDataMap = {idA1}
    /\ DOMAIN postureDataMap[idA1] = {hCost}


\* the non-empty cells of column col (0-based) in the data rows of the grid
\* whose trimmed cell of column idCol is appId, in row order
CellsOf(grid, idCol, col, appId) ==
    [n \in 1..Len(SelectSeq(Tail(grid),
                            LAMBDA row : /\ Len(row) > idCol
                                         /\ Len(row) > col
                                         /\ Trim(row[idCol + 1]) = appId
                                         /\ row[col + 1] # << >>)) |->
        SelectSeq(Tail(grid),
                  LAMBDA row : /\ Len(row) > idCol
                               /\ Len(row) > col
                               /\ Trim(row[idCol + 1]) = appId
                               /\ row[col + 1] # << >>)[n][col + 1]]

\* the headers a rule that is not skipped stores values of
HeadersStored(config, wb) ==
    {h \in SeqToSet(config.dataHeadersToPull) \cup {config.valueHeaderForAggregation} :
        h # << >> /\ ~HeaderMissing(config, wb, h)}

\* what the rule appends to the list of (appId, header)
Appended(config, wb, appId, header) ==
    IF RuleSkipped(config, wb) \/ header \notin HeadersStored(config, wb) THEN << >>
    ELSE CellsOf(wb.sheets[config.sheetName],
                 findColumnIndex(wb.sheets[config.sheetName][1], config.appIdHeaders),
                 findColumnIndex(wb.sheets[config.sheetName][1], << header >>),
                 appId)

HeadersOfStore(dataMap) == UNION {DOMAIN dataMap[a] : a \in DOMAIN dataMap}

\* C24. After the extraction of one rule the list of every app id and header is
\* the list before it followed by the non-empty cells of the header's column in
\* the source rows of that app id, in source row order and with duplicates; no
\* list of the store is empty and none holds an empty string.
StoreAppendOnly ==
    /\ [](\A a \in DOMAIN postureDataMap : \A h \in DOMAIN postureDataMap[a] :
             /\ Len(postureDataMap[a][h]) > 0
             /\ \A i \in 1..Len(postureDataMap[a][h]) : postureDataMap[a][h][i] # << >>)
    /\ [][(pc = "extract" /\ cfgPos' = cfgPos + 1) =>
             /\ DOMAIN postureDataMap' \subseteq masterAppIds
             /\ \A a \in masterAppIds :
                  \A h \in HeadersOfStore(postureDataMap')
                           \cup SeqToSet(POSTURE_SHEETS_CONFIG[cfgPos].dataHeadersToPull) :
                      getValuesFromMap(postureDataMap', a, h)
                        = getValuesFromMap(postureDataMap, a, h)
                          \o Appended(POSTURE_SHEETS_CONFIG[cfgPos], workbook, a, h)]_vars

\* C24 happens: over the Patches rows [A1, High, 10] and [A1, Low, ""] a Count
\* rule of Severity and then a Max rule of Cost that also pulls Severity were
\* extracted; the Severity list of A1 is High, Low, High, Low and its Cost list
\* is 10.
StoreAppendWitness ==
    /\ pc = "extract"
    /\ cfgPos = 3
    /\ POSTURE_SHEETS_CONFIG = << RuleOf(sCount, << hSeverity >>),
                                  RuleOf(sMax, << hCost, hSeverity >>) >>
    /\ DOMAIN postureDataMap = {idA1}
    /\ postureDataMap[idA1][hSeverity]
          = << << "H","i","g","h" >>, << "L","o","w" >>, << "H","i","g","h" >>, << "L","o","w" >> >>
    /\ postureDataMap[idA1][hCost] = << << "1","0" >> >>


\* a stored text with a digit among its characters
HasDigit(text) == \E n \in 1..Len(text) : IndexIn(DigitChars, text[n]) # 0

\* C25. For Sum, Average, Min and Max, when the app id has values under the
\* value header and not one of them has a digit, the cell is the missing value
\* (the empty string), not 0.
NoNumericValueGivesMissing ==
    (/\ pc = "aggregated"
     /\ IsNumericType(fnArg.config.aggregationType)
     /\ getValuesFromMap(fnArg.dataMap, fnArg.appId,
                         fnArg.config.valueHeaderForAggregation) # << >>
     /\ \A n \in 1..Len(getValuesFromMap(fnArg.dataMap, fnArg.appId,
                                         fnArg.config.valueHeaderForAggregation)) :
           ~HasDigit(getValuesFromMap(fnArg.dataMap, fnArg.appId,
                                      fnArg.config.valueHeaderForAggregation)[n]))
    => fnRes = DEFAULT_VALUE_MISSING


\* C26. When the config scan ends with a valid configuration and no accepted
\* rule, the run ends without an error outcome and the summary sheet holds no
\* data row afterwards (a summary sheet that does not exist counts as empty).
NoRulesEmptySummary ==
    (pc = "done" /\ configIsValid /\ cfgRowI >= 1 /\ cfgRowI = Len(configValues)
     /\ POSTURE_SHEETS_CONFIG = << >>)
    => /\ halt = "noRules"
       /\ summarySheet.data = << >>


\* the positions in masterFieldsToPull of the fields the master header row lacks
FieldsNotInMaster ==
    {k \in 1..Len(masterFieldsToPull) :
        findColumnIndex(workbook.sheets[MASTER_APP_SHEET_NAME][1],
                        << masterFieldsToPull[k] >>) = -1}

\* C27. A requested master field without a column in the master header row does
\* not end the run: at the write stage the field still has its header cell, no
\* app id has a value for it in masterAppDataMap, its cell is the missing value
\* in every row, every row is there, and the cells of the other master fields
\* and of the rule columns are what they are otherwise.  A run with such a field
\* whose config and master sheet are usable ends as finished.
MissingFieldNotFatal ==
    /\ WriteStageReached =>
          /\ Len(outputData) = Cardinality(masterAppIds)
          /\ \A k \in FieldsNotInMaster :
                /\ summaryHeaders[1 + k] = masterFieldsToPull[k]
                /\ \A a \in masterAppIds : masterFieldsToPull[k] \notin DOMAIN masterAppDataMap[a]
                /\ \A r \in 1..Len(outputData) : outputData[r][1 + k] = DEFAULT_VALUE_MISSING
          /\ \A r \in 1..Len(outputData) :
                /\ Len(outputData[r]) = Len(summaryHeaders)
                /\ \A k \in (1..Len(masterFieldsToPull)) \ FieldsNotInMaster :
                      outputData[r][1 + k] =
                          IF masterFieldsToPull[k] \in DOMAIN masterAppDataMap[RowAppId(r)]
                          THEN Str(masterAppDataMap[RowAppId(r)][masterFieldsToPull[k]])
                          ELSE DEFAULT_VALUE_MISSING
                /\ \A j \in 1..Len(postureColumnConfigMap) :
                      PostureCell(r, j) =
                          CellOf(postureColumnConfigMap[j].config, RowAppId(r), postureDataMap,
                                 Raised(r, j))
    /\ (pc = "done" /\ Len(masterFieldsToPull) > 0 /\ ~RegistryUnusable(workbook))
          => halt = "finished"

\* C27 happens: Owner was requested, the master sheet has a Tier column only,
\* and the run ended with the rows of A1, A2 and a1, each with the missing value
\* under Owner and a count under Patches.
MissingFieldWitness ==
    /\ pc = "done"
    /\ halt = "finished"
    /\ masterFieldsToPull = << << "O","w","n","e","r" >> >>
    /\ FieldsNotInMaster = {1}
    /\ Len(summarySheet.data) = 3
    /\ summarySheet.header[2] = << "O","w","n","e","r" >>
    /\ \A r \in 1..3 : summarySheet.data[r][2] = DEFAULT_VALUE_MISSING
    /\ summarySheet.data[1][3] = Str(<< "H","i","g","h",":"," ","2","\n","L","o","w",":"," ","1" >>)


\* the phase of an I/O event: 1 config read, 2 master read, 3 posture sheet
\* read, 4 summary delete, 5 summary add, 6 header write, 7 data write, 8 format
PhaseOf(e) ==
    IF e.op = "read"
    THEN (IF e.name = CONFIG_SHEET_NAME THEN 1
          ELSE IF e.name = MASTER_APP_SHEET_NAME THEN 2 ELSE 3)
    ELSE IF e.op = "delete" THEN 4
    ELSE IF e.op = "add" THEN 5
    ELSE IF e.op = "writeHeader" THEN 6
    ELSE IF e.op = "writeData" THEN 7
    ELSE 8

\* the sheet names of the rules visited by the extraction loop whose sheet
\* exists and has a data row, in rule order
SourcesRead ==
    SelectSeq(SheetNamesOf(SubSeq(POSTURE_SHEETS_CONFIG, 1, cfgPos - 1)),
              LAMBDA name : HasSheet(workbook, name) /\ Len(workbook.sheets[name]) > 1)

PhasesIn(log) == {PhaseOf(log[n]) : n \in 1..Len(log)}

PhaseOrder(log) ==
    /\ \A m \in 1..Len(log) : \A n \in (m + 1)..Len(log) :
          /\ PhaseOf(log[m]) <= PhaseOf(log[n])
          /\ PhaseOf(log[m]) = PhaseOf(log[n]) => PhaseOf(log[m]) = 3
    /\ [n \in 1..Len(SelectSeq(log, LAMBDA e : PhaseOf(e) = 3)) |->
           SelectSeq(log, LAMBDA e : PhaseOf(e) = 3)[n].name] = SourcesRead
    /\ \A p \in PhasesIn(log) :
          /\ p >= 2 => 1 \in PhasesIn(log)
          /\ p >= 3 => 2 \in PhasesIn(log)
          /\ p >= 6 => 5 \in PhasesIn(log)
          /\ p >= 7 => 6 \in PhasesIn(log)
          /\ p >= 8 => 7 \in PhasesIn(log)

\* C28. Phase ordering: the I/O events of a run come one after the other in the
\* order config read, master read, posture sheet reads, summary delete and add,
\* header write, data write, format; each happens at most once, except that there
\* is one posture sheet read per visited rule whose sheet has data, in rule
\* order; no sheet is read once the summary sheet is added, the data is written
\* only after the header, an event once done is never redone or removed, and a
\* run that has returned does no further I/O.
PhaseOrdering ==
    /\ [](PhaseOrder(io))
    /\ [][/\ Len(io') >= Len(io)
          /\ SubSeq(io', 1, Len(io)) = io
          /\ pc = "done" => io' = io]_vars

\* C28 happens: a finished run over a workbook with an old summary sheet did
\* all nine I/O steps, two of them posture sheet reads.
PhaseOrderingWitness ==
    /\ pc = "done"
    /\ halt = "finished"
    /\ [n \in 1..Len(io) |-> PhaseOf(io[n])] = << 1, 2, 3, 3, 4, 5, 6, 7, 8 >>
    /\ io[3].name # io[4].name


\* C29. The row length guard is never taken: every row the loop over the master
\* app ids builds has one cell for the id, one per master field and one per
\* distinct sheet name of the rules, which is the length of the header row, so
\* no app id is dropped, every app id visited so far has its row in outputData,
\* and every master app id has its row on the summary sheet once the data is
\* written.
RowGuardNeverTaken ==
    /\ [](droppedApps = {})
    /\ [](pc = "rows" =>
             /\ Len(outputData) = appPos - 1
             /\ \A r \in 1..Len(outputData) :
                   /\ outputData[r][1] = Str(masterAppIdArray[r])
                   /\ Len(outputData[r])
                        = 1 + Len(masterFieldsToPull) + Cardinality(DistinctSheetNames)
                   /\ Len(outputData[r]) = Len(summaryHeaders))
    /\ [](WriteStageReached =>
             {summarySheet.data[n][1] : n \in 1..Len(summarySheet.data)}
                = {Str(a) : a \in masterAppIds})
    /\ [][(pc = "rows" /\ appPos' = appPos + 1) => outputData' # outputData]_vars

\* C29 happens: two rules of one sheet, two master fields: both rows of four
\* cells passed the guard and were written.
RowGuardWitness ==
    /\ WriteStageReached
    /\ Len(POSTURE_SHEETS_CONFIG) > Cardinality(DistinctSheetNames)
    /\ Len(masterFieldsToPull) = 2
    /\ Len(summaryHeaders) = 4
    /\ Len(summarySheet.data) = 2
    /\ Len(summarySheet.data[1]) = 4
    /\ Len(summarySheet.data[2]) = 4


\* C30. Every master field name of the header row was requested by an accepted
\* rule: a config row that was skipped, such as one whose id headers cell holds
\* commas only, adds no master field column.
PassthroughRequested ==
    HeaderWritten =>
        \A k \in 1..Len(masterFieldsToPull) :
            /\ summarySheet.header[1 + k] = masterFieldsToPull[k]
            /\ \E n \in 1..Len(POSTURE_SHEETS_CONFIG) :
                  masterFieldsToPull[k] \in SeqToSet(POSTURE_SHEETS_CONFIG[n].masterFieldsForRow)

=============================================================================
